---- MODULE Spec2Model ----
(***************************************************************************)
(* Multi-game tactical pattern detection (backend/patterns.py).            *)
(*                                                                         *)
(* Units.  Pawn-valued quantities that the code rounds to one decimal      *)
(* (lost_material, PIECE_VALUES) are kept in tenths of a pawn, percentages *)
(* rounded to one decimal (avg_accuracy) in tenths of a percent, and       *)
(* eval_change (two decimals upstream) in hundredths of a pawn, which is   *)
(* also the centipawn.  Python None / a missing dict key are modelled by a *)
(* key missing from the record; an Optional result is a tuple of length 0  *)
(* (None) or a non-empty tuple.                                            *)
(***************************************************************************)
EXTENDS Integers, Sequences, FiniteSets, TLC

\* ------------------------------------------------------------------------
\* The rules library (python-chess) as far as patterns.py queries it.
\* ------------------------------------------------------------------------

WHITE == TRUE
BLACK == FALSE

PAWN == "pawn"
KNIGHT == "knight"
BISHOP == "bishop"
ROOK == "rook"
QUEEN == "queen"
KING == "king"

\* chess.SQUARES: a1 = 0, b1 = 1, ..., h8 = 63.
SQUARES == 0..63

square_file(sq) == sq % 8

square_rank(sq) == sq \div 8

square(f, r) == r * 8 + f

FileLetters == <<"a", "b", "c", "d", "e", "f", "g", "h">>

\* chess.square_name, kept as the pair <<file letter, rank number>>.
_sq(sq) == <<FileLetters[square_file(sq) + 1], square_rank(sq) + 1>>

Abs(x) == IF x < 0 THEN -x ELSE x

Max(a, b) == IF a >= b THEN a ELSE b

Min(a, b) == IF a <= b THEN a ELSE b

Sign(x) == IF x > 0 THEN 1 ELSE IF x < 0 THEN -1 ELSE 0

\* FEN piece letters.
PieceLetters ==
  [K |-> [color |-> WHITE, piece_type |-> KING],
   Q |-> [color |-> WHITE, piece_type |-> QUEEN],
   R |-> [color |-> WHITE, piece_type |-> ROOK],
   B |-> [color |-> WHITE, piece_type |-> BISHOP],
   N |-> [color |-> WHITE, piece_type |-> KNIGHT],
   P |-> [color |-> WHITE, piece_type |-> PAWN],
   k |-> [color |-> BLACK, piece_type |-> KING],
   q |-> [color |-> BLACK, piece_type |-> QUEEN],
   r |-> [color |-> BLACK, piece_type |-> ROOK],
   b |-> [color |-> BLACK, piece_type |-> BISHOP],
   n |-> [color |-> BLACK, piece_type |-> KNIGHT],
   p |-> [color |-> BLACK, piece_type |-> PAWN]]

\* What piece_at returns for an empty square (None).
NoPiece == [color |-> WHITE, piece_type |-> "none"]

DigitValue ==
  [d \in {"1", "2", "3", "4", "5", "6", "7", "8"} |->
     CASE d = "1" -> 1 [] d = "2" -> 2 [] d = "3" -> 3 [] d = "4" -> 4
       [] d = "5" -> 5 [] d = "6" -> 6 [] d = "7" -> 7 [] d = "8" -> 8]

IsDigit(tok) == tok \in DOMAIN DigitValue

IsPieceLetter(tok) == tok \in DOMAIN PieceLetters

\* A FEN is [placement |-> the rank rows, rank 8 first, each a sequence of
\* one-character tokens; turn |-> "w" or "b"].
RECURSIVE RowWidth(_)
RowWidth(row) ==
  IF row = <<>> THEN 0
  ELSE (IF IsDigit(Head(row)) THEN DigitValue[Head(row)] ELSE 1) + RowWidth(Tail(row))

RowValid(row) ==
  /\ \A i \in 1..Len(row) : IsDigit(row[i]) \/ IsPieceLetter(row[i])
  /\ \A i \in 1..(Len(row) - 1) : ~(IsDigit(row[i]) /\ IsDigit(row[i + 1]))
  /\ RowWidth(row) = 8

\* Whether chess.Board(fen) accepts the text (it raises ValueError otherwise).
FenParses(fen) ==
  /\ Len(fen.placement) = 8
  /\ \A i \in 1..8 : RowValid(fen.placement[i])
  /\ fen.turn \in {"w", "b"}

\* The cells of one rank row, file a first.
RECURSIVE RowCells(_)
RowCells(row) ==
  IF row = <<>> THEN <<>>
  ELSE (IF IsDigit(Head(row))
          THEN [i \in 1..DigitValue[Head(row)] |-> NoPiece]
          ELSE <<PieceLetters[Head(row)]>>) \o RowCells(Tail(row))

\* chess.Board(fen): cells lists the squares a1..h8 (square sq at sq + 1),
\* each the piece on it or NoPiece; turn is the side to move (WHITE or
\* BLACK).
RECURSIVE RanksUp(_, _)
RanksUp(placement, i) ==
  IF i = 0 THEN <<>> ELSE RowCells(placement[i]) \o RanksUp(placement, i - 1)

Board(fen) == [cells |-> RanksUp(fen.placement, 8), turn |-> (fen.turn = "w")]

\* board.piece_at(sq) is None exactly when no piece stands on sq.
HasPiece(board, sq) == board.cells[sq + 1] # NoPiece

piece_at(board, sq) == board.cells[sq + 1]

occupied(board) == {sq \in SQUARES : HasPiece(board, sq)}

\* board.pieces(piece_type, color)
pieces(board, piece_type, color) ==
  {sq \in SQUARES : piece_at(board, sq) = [color |-> color, piece_type |-> piece_type]}

\* Two squares df files and dr ranks apart share a rank, file or diagonal.
Aligned(df, dr) == (df # 0 \/ dr # 0) /\ (df = 0 \/ dr = 0 \/ Abs(df) = Abs(dr))

\* The squares of the board k steps from a towards (df, dr), for k in ks.
Line(a, df, dr, ks) ==
  {square(square_file(a) + k * Sign(df), square_rank(a) + k * Sign(dr)) :
     k \in {j \in ks : /\ square_file(a) + j * Sign(df) \in 0..7
                       /\ square_rank(a) + j * Sign(dr) \in 0..7}}

BetweenBy(a, df, dr) ==
  IF Aligned(df, dr) THEN Line(a, df, dr, 1..(Max(Abs(df), Abs(dr)) - 1)) ELSE {}

\* chess.between(a, b): the squares strictly between a and b when they share
\* a rank, a file or a diagonal; empty otherwise.
between(a, b) ==
  BetweenBy(a, square_file(b) - square_file(a), square_rank(b) - square_rank(a))

RayBy(a, df, dr) == IF Aligned(df, dr) THEN Line(a, df, dr, -7..7) ELSE {}

\* chess.ray(a, b): the whole line through a and b, edge to edge.
ray(a, b) ==
  RayBy(a, square_file(b) - square_file(a), square_rank(b) - square_rank(a))

KnightSteps ==
  {<<1, 2>>, <<2, 1>>, <<2, -1>>, <<1, -2>>, <<-1, -2>>, <<-2, -1>>, <<-2, 1>>, <<-1, 2>>}

\* Whether the piece p attacks a square df files and dr ranks away, clear
\* telling whether the squares between are empty.
PieceAttacks(p, df, dr, clear) ==
  CASE p.piece_type = KNIGHT -> <<df, dr>> \in KnightSteps
    [] p.piece_type = KING -> (df # 0 \/ dr # 0) /\ Abs(df) <= 1 /\ Abs(dr) <= 1
    [] p.piece_type = PAWN -> Abs(df) = 1 /\ dr = (IF p.color = WHITE THEN 1 ELSE -1)
    [] p.piece_type \in {ROOK, BISHOP, QUEEN} ->
         /\ df # 0 \/ dr # 0
         /\ \/ p.piece_type # BISHOP /\ (df = 0 \/ dr = 0)
            \/ p.piece_type # ROOK /\ Abs(df) = Abs(dr)
         /\ clear
    [] OTHER -> FALSE

\* Whether the piece on sq attacks the square t (pins are ignored, a piece
\* of its own side on t counts as attacked, that is defended).
AttacksSquare(board, sq, t) ==
  PieceAttacks(piece_at(board, sq),
               square_file(t) - square_file(sq), square_rank(t) - square_rank(sq),
               \A x \in between(sq, t) : ~HasPiece(board, x))

\* board.attacks(sq): the squares the piece on sq attacks.
attacks(board, sq) == {t \in SQUARES : AttacksSquare(board, sq, t)}

\* board.attackers(color, sq): the squares of the color's pieces attacking sq.
attackers(board, color, sq) ==
  {s \in SQUARES : /\ HasPiece(board, s)
                   /\ piece_at(board, s).color = color
                   /\ AttacksSquare(board, s, sq)}

is_attacked_by(board, color, sq) == attackers(board, color, sq) # {}

\* The lowest and the highest square of a non-empty set.
Lowest(S) == CHOOSE s \in S : \A t \in S : s <= t

Highest(S) == CHOOSE s \in S : \A t \in S : t <= s

\* What scan_reversed yields first, as a tuple: empty for an empty set.
FirstReversed(S) == IF S = {} THEN <<>> ELSE <<Highest(S)>>

\* board.king(color): a tuple holding the king's square, empty when the
\* color has no king (the highest square when a position holds several).
king(board, color) == FirstReversed(pieces(board, KING, color))

\* The sliders that move along the line through two aligned squares.
SlidersOn(a, b) ==
  IF square_file(a) # square_file(b) /\ square_rank(a) # square_rank(b)
    THEN {BISHOP, QUEEN}
    ELSE {ROOK, QUEEN}

\* between(sniper, king) & (occupied | square) == square
HoldsOnly(board, sq, span) ==
  sq \in span /\ \A x \in span : x = sq \/ ~HasPiece(board, x)

\* Whether the piece on s is a sniper of pin_mask: an enemy slider on the
\* line from the king through sq with sq, and nothing else, in between.
IsSniper(board, color, sq, king_sq, s) ==
  /\ HasPiece(board, s)
  /\ piece_at(board, s).color # color
  /\ piece_at(board, s).piece_type \in SlidersOn(king_sq, sq)
  /\ HoldsOnly(board, sq, between(s, king_sq))

PinSniperFrom(board, color, sq, k) ==
  IF k = <<>> THEN <<>>
  ELSE FirstReversed({s \in ray(k[1], sq) : IsSniper(board, color, sq, k[1], s)})

\* The sniper of board.pin_mask, as a tuple: empty when sq is not pinned
\* (or the color has no king).
PinSniper(board, color, sq) == PinSniperFrom(board, color, sq, king(board, color))

PinMask(k, sniper) == IF sniper = <<>> THEN SQUARES ELSE ray(k[1], sniper[1])

\* board.pin(color, sq): the ray from the color's king through the sniper
\* that pins sq, or every square (BB_ALL) when sq is not pinned.
pin(board, color, sq) == PinMask(king(board, color), PinSniper(board, color, sq))

\* board.is_pinned: pin_mask is not BB_ALL.
is_pinned(board, color, sq) == PinSniper(board, color, sq) # <<>>

\* A set of squares as a sequence, ascending (scan order a1..h8).
RECURSIVE Ascending(_)
Ascending(S) == IF S = {} THEN <<>> ELSE <<Lowest(S)>> \o Ascending(S \ {Lowest(S)})

\* ... and descending (scan_reversed).
RECURSIVE Descending(_)
Descending(S) == IF S = {} THEN <<>> ELSE <<Highest(S)>> \o Descending(S \ {Highest(S)})

\* board.push(move) on a copy: the piece leaves from_square and stands on
\* to_square, the turn passes.
push(board, move) ==
  [cells |-> [board.cells EXCEPT ![move.from_square + 1] = NoPiece,
                                 ![move.to_square + 1] = board.cells[move.from_square + 1]],
   turn |-> ~board.turn]

\* A move is legal when it leaves the mover's king unattacked.
KingSafe(after, them, k) == k = <<>> \/ ~is_attacked_by(after, them, k[1])

LeavesKingSafe(after, us) == KingSafe(after, ~us, king(after, us))

MovesTo(from, tos) == [i \in 1..Len(tos) |-> [from_square |-> from, to_square |-> tos[i]]]

\* The moves of the knight on from among board.legal_moves, in generation
\* order (to squares descending): to a square its own side does not occupy.
KnightMovesFrom(board, from) ==
  MovesTo(from,
          Descending({to \in attacks(board, from) :
                        /\ ~(HasPiece(board, to) /\ piece_at(board, to).color = board.turn)
                        /\ LeavesKingSafe(push(board, [from_square |-> from,
                                                       to_square |-> to]),
                                          board.turn)}))

RECURSIVE Concat(_)
Concat(seqs) == IF seqs = <<>> THEN <<>> ELSE Head(seqs) \o Concat(Tail(seqs))

MovesOf(board, froms) == Concat([i \in 1..Len(froms) |-> KnightMovesFrom(board, froms[i])])

\* The knight moves among board.legal_moves (from squares descending).
legal_knight_moves(board) == MovesOf(board, Descending(pieces(board, KNIGHT, board.turn)))

\* ------------------------------------------------------------------------
\* patterns.py
\* ------------------------------------------------------------------------

\* PIECE_VALUES, in tenths of a pawn.
PIECE_VALUES ==
  [pawn |-> 10, knight |-> 30, bishop |-> 30, rook |-> 50, queen |-> 90, king |-> 1000]

PIECE_NAMES ==
  [pawn |-> "pawn", knight |-> "knight", bishop |-> "bishop", rook |-> "rook",
   queen |-> "queen", king |-> "king"]

\* PIECE_VALUES.get(piece.piece_type, 0) and PIECE_NAMES[piece.piece_type] of
\* the piece on sq.
ValueAt(board, sq) == PIECE_VALUES[piece_at(board, sq).piece_type]

NameAt(board, sq) == PIECE_NAMES[piece_at(board, sq).piece_type]

\* The description strings, kept as their parts: the sentence pattern, the
\* piece it names, the square it names (empty when it names none) and the
\* further names it lists.
Description(text, piece, sq, names) ==
  [text |-> text, piece |-> piece, square |-> sq, names |-> names]

\* sum(...) and min(...) over a list of numbers.
RECURSIVE Sum(_)
Sum(xs) == IF xs = <<>> THEN 0 ELSE Head(xs) + Sum(Tail(xs))

RECURSIVE MinOf(_)
MinOf(xs) == IF Len(xs) = 1 THEN xs[1] ELSE Min(Head(xs), MinOf(Tail(xs)))

\* Of the squares of the highest value, the last in a1..h8 order.
MostValuable_HighestSquare(board, S) ==
  Highest({sq \in S : \A t \in S : ValueAt(board, t) <= ValueAt(board, sq)})

\* Of a non-empty set of occupied squares, the one a scan in a1..h8 order
\* keeps as the most valuable: the lowest of those of the highest value (a
\* stable descending sort puts it first, and so does replacing the best only
\* by a strictly higher value).
MostValuable(board, S) ==
  Lowest({sq \in S : \A t \in S : ValueAt(board, t) <= ValueAt(board, sq)})

\* The victim's pieces, the king apart, that are attacked and undefended.
Hanging(board, victim_color) ==
  {sq \in SQUARES :
     /\ HasPiece(board, sq)
     /\ piece_at(board, sq).color = victim_color
     /\ piece_at(board, sq).piece_type # KING
     /\ attackers(board, ~victim_color, sq) # {}
     /\ attackers(board, victim_color, sq) = {}}

HangingAt(board, sq) ==
  <<Description("left undefended", NameAt(board, sq), _sq(sq), <<>>), ValueAt(board, sq)>>

HangingResult(board, hanging) ==
  IF hanging = {} THEN <<>> ELSE HangingAt(board, MostValuable(board, hanging))

\* detect_hanging_pieces: <<>> or <<description, value>>.
detect_hanging_pieces(board, victim_color) ==
  HangingResult(board, Hanging(board, victim_color))

\* The return of _check_fork_from for the list of valuable pieces attacked.
ForkOf(sq, b, attacked) ==
  IF Len(attacked) >= 2
    THEN [result |-> <<Description("Knight forks", "knight", _sq(sq),
                                   [i \in 1..Len(attacked) |-> NameAt(b, attacked[i])]),
                       MinOf([i \in 1..Len(attacked) |-> ValueAt(b, attacked[i])])>>,
          total |-> Sum([i \in 1..Len(attacked) |-> ValueAt(b, attacked[i])])]
    ELSE [result |-> <<>>, total |-> 0]

\* _check_fork_from with every victim piece counted as valuable.
check_fork_from_AnyPiece(sq, b, victim_color) ==
  ForkOf(sq, b,
         Ascending({t \in attacks(b, sq) :
                      /\ HasPiece(b, t)
                      /\ piece_at(b, t).color = victim_color}))

\* _check_fork_from: [result |-> <<>> or <<description, at_risk>>, total].
check_fork_from(sq, b, victim_color) ==
  ForkOf(sq, b,
         Ascending({t \in attacks(b, sq) :
                      /\ HasPiece(b, t)
                      /\ piece_at(b, t).color = victim_color
                      /\ piece_at(b, t).piece_type \in {KING, QUEEN, ROOK, BISHOP}}))

\* The two loops "if result and total > best_total_value" over a list of
\* _check_fork_from outcomes, starting from best.
RECURSIVE BestFork(_, _)
BestFork(outcomes, best) ==
  IF outcomes = <<>> THEN best
  ELSE BestFork(Tail(outcomes),
                IF Head(outcomes).result # <<>> /\ Head(outcomes).total > best.total
                  THEN Head(outcomes)
                  ELSE best)

\* The outcomes at the existing knight positions ...
ExistingForks(board, victim_color, knights) ==
  [i \in 1..Len(knights) |-> check_fork_from(knights[i], board, victim_color)]

\* ... and at the one-move knight destinations.
HypotheticalForks(board, victim_color, moves) ==
  [i \in 1..Len(moves) |->
     check_fork_from(moves[i].to_square, push(board, moves[i]), victim_color)]

\* detect_knight_fork: <<>> or <<description, at_risk>>.
detect_knight_fork(board, exploiter_color) ==
  BestFork(ExistingForks(board, ~exploiter_color,
                         Ascending(pieces(board, KNIGHT, exploiter_color)))
             \o HypotheticalForks(board, ~exploiter_color,
                                  SelectSeq(legal_knight_moves(board),
                                            LAMBDA m : piece_at(board, m.from_square).color
                                                         = exploiter_color)),
           [result |-> <<>>, total |-> 0]).result

\* The pinner the description names: the first enemy piece, in a1..h8
\* order, on the pin ray (the pinned square and the king's square excluded),
\* "piece" when there is none.
FirstNamed(board, candidates) ==
  IF candidates = {} THEN "piece" ELSE NameAt(board, Lowest(candidates))

PinnerName(board, victim_color, sq, king_sq) ==
  FirstNamed(board, {c \in pin(board, victim_color, sq) \ {sq, king_sq} :
                       HasPiece(board, c) /\ piece_at(board, c).color # victim_color})

\* The victim's pieces, the king apart, that are pinned to the king.
Pinned(board, victim_color) ==
  {sq \in SQUARES :
     /\ HasPiece(board, sq)
     /\ piece_at(board, sq).color = victim_color
     /\ piece_at(board, sq).piece_type # KING
     /\ is_pinned(board, victim_color, sq)}

PinAt(board, victim_color, sq, king_sq) ==
  <<Description("pinned to king by", NameAt(board, sq), _sq(sq),
                <<PinnerName(board, victim_color, sq, king_sq)>>),
    ValueAt(board, sq)>>

\* The pin reported being that of the first pinned piece in a1..h8 order.
PinResult_FirstPinned(board, victim_color, k, pinned) ==
  IF k = <<>> \/ pinned = {} THEN <<>>
  ELSE PinAt(board, victim_color, Lowest(pinned), k[1])

PinResult(board, victim_color, k, pinned) ==
  IF k = <<>> \/ pinned = {} THEN <<>>
  ELSE PinAt(board, victim_color, MostValuable(board, pinned), k[1])

\* detect_pin: <<>> or <<description, value>>.
detect_pin(board, victim_color) ==
  PinResult(board, victim_color, king(board, victim_color), Pinned(board, victim_color))

\* An escape square taken to be an empty square that is not attacked.
EscapeExists_EmptyOnly(board, victim_color, escape_sq) ==
  /\ ~HasPiece(board, escape_sq)
  /\ ~is_attacked_by(board, ~victim_color, escape_sq)

\* An escape square the king can step to: not held by its own piece and not
\* attacked.
EscapeExists(board, victim_color, escape_sq) ==
  /\ ~(HasPiece(board, escape_sq) /\ piece_at(board, escape_sq).color = victim_color)
  /\ ~is_attacked_by(board, ~victim_color, escape_sq)

\* The king stands on its back rank and none of the squares one rank
\* forward, on its file and the neighbouring ones, is an escape.
KingTrapped(board, victim_color, king_sq) ==
  /\ square_rank(king_sq) = (IF victim_color = WHITE THEN 0 ELSE 7)
  /\ \A f \in Max(0, square_file(king_sq) - 1)..(Min(8, square_file(king_sq) + 2) - 1) :
       ~EscapeExists(board, victim_color,
                     square(f, IF victim_color = WHITE THEN 1 ELSE 6))

BackRankResult(board, victim_color, k) ==
  IF k = <<>> THEN <<>>
  ELSE IF /\ KingTrapped(board, victim_color, k[1])
          /\ \/ pieces(board, ROOK, ~victim_color) # {}
             \/ pieces(board, QUEEN, ~victim_color) # {}
    THEN <<Description("Back rank weakness", "king", <<>>, <<>>), 1000>>
  ELSE <<>>

\* detect_back_rank: <<>> or <<description, 100.0>>.
detect_back_rank(board, victim_color) ==
  BackRankResult(board, victim_color, king(board, victim_color))

\* ---- dict and list helpers ----

\* Python None where a string is expected (an attribution entry).
NoneStr == "<None>"

\* d.get(key, default)
Get(d, key, default) == IF key \in DOMAIN d THEN d[key] ELSE default

\* Truth value of an Optional[str]: None and "" are false.
Truthy(str) == str \notin {NoneStr, ""}

\* round(x, 1) of a float x >= 0 given in hundredths, in tenths.  Python
\* rounds the double nearest to x: HalfUp lists the hundredths ending in 5,
\* below 4.00, whose double lies above the tie (or is the tie and rounds to
\* an even digit upwards).
HalfUp ==
  {5, 45, 55, 65, 75, 105, 135, 155, 175, 185, 235, 245, 275, 285, 295, 335, 345,
   375, 385, 395}

Round1(h) ==
  IF h % 10 > 5 \/ (h % 10 = 5 /\ h \in HalfUp) THEN h \div 10 + 1 ELSE h \div 10

\* Nearest integer to the rational p / q (q > 0, p >= 0), ties to even.
RoundDiv(p, q) ==
  IF 2 * (p % q) > q \/ (2 * (p % q) = q /\ (p \div q) % 2 = 1)
    THEN p \div q + 1
    ELSE p \div q

\* TacticalPattern values the detectors file findings under.
HANGING_PIECE == "hanging_piece"
KNIGHT_FORK == "knight_fork"
PIN == "pin"
BACK_RANK == "back_rank"

\* GamePhase values, in enumeration order.
GamePhase == <<"opening", "middlegame", "endgame">>

\* _get_phase with the opening ending before move 15.
_get_phase_EarlyMiddlegame(move_number) ==
  IF move_number < 15 THEN "opening"
  ELSE IF move_number <= 40 THEN "middlegame"
  ELSE "endgame"

_get_phase(move_number) ==
  IF move_number <= 15 THEN "opening"
  ELSE IF move_number <= 40 THEN "middlegame"
  ELSE "endgame"

\* The detectors with the pin detector tried first.
TACTICAL_DETECTORS_PinFirst == <<PIN, HANGING_PIECE, KNIGHT_FORK, BACK_RANK>>

\* TACTICAL_DETECTORS: the priority order; entry i's lambda applied to
\* (b, vc, ec) is DetectorResult(i, b, vc, ec).
TACTICAL_DETECTORS == <<HANGING_PIECE, KNIGHT_FORK, PIN, BACK_RANK>>

DetectorResult(i, b, vc, ec) ==
  CASE TACTICAL_DETECTORS[i] = HANGING_PIECE -> detect_hanging_pieces(b, vc)
    [] TACTICAL_DETECTORS[i] = KNIGHT_FORK -> detect_knight_fork(b, ec)
    [] TACTICAL_DETECTORS[i] = PIN -> detect_pin(b, vc)
    [] TACTICAL_DETECTORS[i] = BACK_RANK -> detect_back_rank(b, vc)

\* The board as detector i leaves it, had detect_knight_fork pushed its
\* first hypothetical move on the board itself.
BoardAfterDetector_PushedInPlace(i, b, vc, ec) ==
  IF TACTICAL_DETECTORS[i] = KNIGHT_FORK /\ b.turn = ec /\ legal_knight_moves(b) # <<>>
    THEN push(b, legal_knight_moves(b)[1])
    ELSE b

\* The board as detector i leaves it for the next detector: the detectors
\* only query the board, and detect_knight_fork pushes each hypothetical
\* move on test_board = board.copy().
BoardAfterDetector(i, b, vc, ec) == b

\* The loop over TACTICAL_DETECTORS with its break: <<>> when no detector
\* returns a result, else <<pattern_type, desc, mat_value>> of the first.
\* DetectorStep is the loop body for detector i's result.
RECURSIVE FirstMatchFrom(_, _, _, _)
DetectorStep(i, board, victim_color, exploiter_color, result) ==
  IF result # <<>>
    THEN <<TACTICAL_DETECTORS[i], result[1], result[2]>>
    ELSE FirstMatchFrom(i + 1,
                        BoardAfterDetector(i, board, victim_color, exploiter_color),
                        victim_color, exploiter_color)

FirstMatchFrom(i, board, victim_color, exploiter_color) ==
  IF i > Len(TACTICAL_DETECTORS) THEN <<>>
  ELSE DetectorStep(i, board, victim_color, exploiter_color,
                    DetectorResult(i, board, victim_color, exploiter_color))

\* victim_color of a move: chess.WHITE if color == "white" else chess.BLACK.
VictimColor(move_data) == IF Get(move_data, "color", "white") = "white" THEN WHITE ELSE BLACK

\* Finding without the fallback to the detector's estimate.
Finding_NoEstimate(game_idx, move_data, lost_material, match) ==
  IF match = <<>> THEN <<>>
  ELSE <<[game_index |-> game_idx,
          move_number |-> Get(move_data, "move_number", 0),
          pattern |-> match[1],
          lost_material |-> lost_material,
          fen |-> move_data.fen_after,
          description |-> match[2]]>>

\* The findings a scanned move appends, given lost_material and the
\* detectors' first match: none, or one because of the break.
Finding(game_idx, move_data, lost_material, match) ==
  IF match = <<>> THEN <<>>
  ELSE <<[game_index |-> game_idx,
          move_number |-> Get(move_data, "move_number", 0),
          pattern |-> match[1],
          lost_material |-> IF lost_material > 0 THEN lost_material ELSE match[3],
          fen |-> move_data.fen_after,
          description |-> match[2]]>>

\* What detector i alone files for its result.
OwnMatch(i, result) ==
  IF result # <<>> THEN <<TACTICAL_DETECTORS[i], result[1], result[2]>> ELSE <<>>

\* ScanMove without the break: every detector that returns a result files a
\* finding.
ScanMove_NoBreak(game_idx, user_color, move_data) ==
  IF Get(move_data, "classification", NoneStr) \notin {"blunder", "mistake"} THEN <<>>
  ELSE IF Truthy(user_color) /\ Get(move_data, "color", NoneStr) # user_color THEN <<>>
  ELSE IF "fen_after" \notin DOMAIN move_data THEN <<>>
  ELSE IF ~FenParses(move_data.fen_after) THEN <<>>
  ELSE Concat([i \in 1..Len(TACTICAL_DETECTORS) |->
                 Finding(game_idx, move_data,
                         Round1(Abs(Get(move_data, "eval_change", 0))),
                         OwnMatch(i, DetectorResult(i, Board(move_data.fen_after),
                                                    VictimColor(move_data),
                                                    ~VictimColor(move_data))))])

\* ScanMove without the skip of the opponent's moves.
ScanMove_AnyColor(game_idx, user_color, move_data) ==
  IF Get(move_data, "classification", NoneStr) \notin {"blunder", "mistake"} THEN <<>>
  ELSE IF "fen_after" \notin DOMAIN move_data THEN <<>>
  ELSE IF ~FenParses(move_data.fen_after) THEN <<>>
  ELSE Finding(game_idx, move_data,
               Round1(Abs(Get(move_data, "eval_change", 0))),
               FirstMatchFrom(1, Board(move_data.fen_after),
                              VictimColor(move_data), ~VictimColor(move_data)))

\* One pass of the move loop of _detect_tactical_patterns: the findings the
\* move appends.  game_idx counts from 0.
ScanMove(game_idx, user_color, move_data) ==
  IF Get(move_data, "classification", NoneStr) \notin {"blunder", "mistake"} THEN <<>>
  ELSE IF Truthy(user_color) /\ Get(move_data, "color", NoneStr) # user_color THEN <<>>
  ELSE IF "fen_after" \notin DOMAIN move_data THEN <<>>
  ELSE IF ~FenParses(move_data.fen_after) THEN <<>>
  ELSE Finding(game_idx, move_data,
               Round1(Abs(Get(move_data, "eval_change", 0))),
               FirstMatchFrom(1, Board(move_data.fen_after),
                              VictimColor(move_data), ~VictimColor(move_data)))

\* The finding put at the head of its pattern's list.
AppendFinding_AtFront(patterns, f) ==
  IF \E i \in 1..Len(patterns) : patterns[i].key = f.pattern
    THEN [i \in 1..Len(patterns) |->
            IF patterns[i].key = f.pattern
              THEN [patterns[i] EXCEPT !.findings = <<f>> \o @]
              ELSE patterns[i]]
    ELSE Append(patterns, [key |-> f.pattern, findings |-> <<f>>])

\* patterns[key].append(f), creating the list on the first use of the key.
\* The patterns dict is kept in insertion order, as a sequence of
\* [key |-> pattern, findings |-> list].
AppendFinding(patterns, f) ==
  IF \E i \in 1..Len(patterns) : patterns[i].key = f.pattern
    THEN [i \in 1..Len(patterns) |->
            IF patterns[i].key = f.pattern
              THEN [patterns[i] EXCEPT !.findings = Append(@, f)]
              ELSE patterns[i]]
    ELSE Append(patterns, [key |-> f.pattern, findings |-> <<f>>])

RECURSIVE AppendFindings(_, _)
AppendFindings(patterns, found) ==
  IF found = <<>> THEN patterns
  ELSE AppendFindings(AppendFinding(patterns, Head(found)), Tail(found))

RECURSIVE ScanMoves(_, _, _, _)
\* ScanMoves leaving the game at a blunder or mistake whose fen_after is
\* missing or does not parse.
ScanMoves_StopAtBadFen(patterns, game_idx, user_color, moves) ==
  IF moves = <<>> THEN patterns
  ELSE IF /\ Get(Head(moves), "classification", NoneStr) \in {"blunder", "mistake"}
          /\ \/ "fen_after" \notin DOMAIN Head(moves)
             \/ ~FenParses(Head(moves).fen_after)
    THEN patterns
  ELSE ScanMoves(AppendFindings(patterns, ScanMove(game_idx, user_color, Head(moves))),
                 game_idx, user_color, Tail(moves))

ScanMoves(patterns, game_idx, user_color, moves) ==
  IF moves = <<>> THEN patterns
  ELSE ScanMoves(AppendFindings(patterns, ScanMove(game_idx, user_color, Head(moves))),
                 game_idx, user_color, Tail(moves))

RECURSIVE ScanGames(_, _, _, _)
ScanGames(patterns, games, player_colors, i) ==
  IF i > Len(games) THEN patterns
  ELSE ScanGames(ScanMoves(patterns, i - 1, player_colors[i],
                           Get(games[i], "moves", <<>>)),
                 games, player_colors, i + 1)

\* player_colors[game_idx] raises IndexError for a game beyond the list.
RaisesIndexError(games, player_colors) ==
  \E i \in 1..Len(games) : i \notin DOMAIN player_colors

_detect_tactical_patterns(games, player_colors) ==
  ScanGames(<<>>, games, player_colors, 1)

\* ---- _analyze_phase_performance ----

EmptyPhaseData ==
  [phase \in {GamePhase[i] : i \in 1..Len(GamePhase)} |->
     [cp_losses |-> <<>>, blunders |-> 0, mistakes |-> 0, moves |-> 0]]

\* CountMove with the sample -eval_change * 100, not floored at 0.
CountMove_SignedLoss(phase_data, user_color, move_data) ==
  IF Truthy(user_color) /\ Get(move_data, "color", NoneStr) # user_color THEN phase_data
  ELSE [phase_data EXCEPT
          ![_get_phase(Get(move_data, "move_number", 0))] =
            [moves |-> @.moves + 1,
             blunders |-> IF Get(move_data, "classification", "") = "blunder"
                            THEN @.blunders + 1 ELSE @.blunders,
             mistakes |-> IF Get(move_data, "classification", "") = "mistake"
                            THEN @.mistakes + 1 ELSE @.mistakes,
             cp_losses |-> Append(@.cp_losses, -Get(move_data, "eval_change", 0))]]

\* CountMove without the skip of the opponent's moves.
CountMove_AnyColor(phase_data, user_color, move_data) ==
  [phase_data EXCEPT
     ![_get_phase(Get(move_data, "move_number", 0))] =
       [moves |-> @.moves + 1,
        blunders |-> IF Get(move_data, "classification", "") = "blunder"
                       THEN @.blunders + 1 ELSE @.blunders,
        mistakes |-> IF Get(move_data, "classification", "") = "mistake"
                       THEN @.mistakes + 1 ELSE @.mistakes,
        cp_losses |-> Append(@.cp_losses, Max(0, -Get(move_data, "eval_change", 0)))]]

\* One pass of the move loop: phase_data after the move.
CountMove(phase_data, user_color, move_data) ==
  IF Truthy(user_color) /\ Get(move_data, "color", NoneStr) # user_color THEN phase_data
  ELSE
    LET move_number == Get(move_data, "move_number", 0)
        phase_key == _get_phase(move_number)
        classification == Get(move_data, "classification", "")
        eval_change == Get(move_data, "eval_change", 0)
        cp_loss == Max(0, -eval_change)
    IN  [phase_data EXCEPT
           ![phase_key].moves = @ + 1,
           ![phase_key].blunders = IF classification = "blunder" THEN @ + 1 ELSE @,
           ![phase_key].mistakes = IF classification = "mistake" THEN @ + 1 ELSE @,
           ![phase_key].cp_losses = Append(@, cp_loss)]

RECURSIVE CountMoves(_, _, _)
CountMoves(phase_data, user_color, moves) ==
  IF moves = <<>> THEN phase_data
  ELSE CountMoves(CountMove(phase_data, user_color, Head(moves)), user_color, Tail(moves))

RECURSIVE CountGames(_, _, _, _)
CountGames(phase_data, games, player_colors, i) ==
  IF i > Len(games) THEN phase_data
  ELSE CountGames(CountMoves(phase_data, player_colors[i], Get(games[i], "moves", <<>>)),
                  games, player_colors, i + 1)

\* round(max(0.0, min(100.0, 100 - avg_loss / 2)), 1), in tenths of a percent,
\* of a non-empty list of centipawn losses; the float arithmetic is taken as
\* exact and a tie between two tenths as rounding to the even one.
PhaseAccuracy(cp_losses) ==
  LET n == Len(cp_losses)
      total == Sum(cp_losses)
  IN  IF 5 * total >= 1000 * n THEN 0
      ELSE IF total <= 0 THEN 1000
      ELSE RoundDiv(1000 * n - 5 * total, n)

\* The result dict in insertion (GamePhase) order: a sequence of PhaseStat.
RECURSIVE PhaseResult(_, _)
PhaseResult(phase_data, i) ==
  IF i > Len(GamePhase) THEN <<>>
  ELSE
    LET phase_key == GamePhase[i]
        data == phase_data[phase_key]
        rest == PhaseResult(phase_data, i + 1)
    IN  IF data.moves = 0 THEN rest
        ELSE <<[phase |-> phase_key,
                avg_accuracy |-> IF data.cp_losses # <<>>
                                   THEN PhaseAccuracy(data.cp_losses) ELSE 1000,
                blunder_count |-> data.blunders,
                mistake_count |-> data.mistakes,
                move_count |-> data.moves]>> \o rest

_analyze_phase_performance(games, player_colors) ==
  PhaseResult(CountGames(EmptyPhaseData, games, player_colors, 1), 1)

\* ---- _generate_recommendations ----

\* A recommendation string, kept as the sentence pattern (kind) and the
\* values formatted into it.
Recommendation(kind, subject, other, n1, n2) ==
  [kind |-> kind, subject |-> subject, other |-> other, n1 |-> n1, n2 |-> n2]

\* name.replace("_", " ")
Readable(name) ==
  CASE name = HANGING_PIECE -> "hanging piece"
    [] name = KNIGHT_FORK -> "knight fork"
    [] name = PIN -> "pin"
    [] name = BACK_RANK -> "back rank"

\* The stable ascending order of a list of integer keys, as the sequence of
\* positions: equal keys keep their order.
RECURSIVE StableOrder(_, _)
StableOrder(keys, left) ==
  IF left = {} THEN <<>>
  ELSE LET i == CHOOSE x \in left :
                  \A y \in left : keys[x] < keys[y] \/ (keys[x] = keys[y] /\ x <= y)
       IN  <<i>> \o StableOrder(keys, left \ {i})

\* A list rearranged by a sequence of positions.
Arranged(items, order) == [i \in 1..Len(items) |-> items[order[i]]]

\* sorted(patterns.items(), key=lambda x: len(x[1]), reverse=True): stable,
\* so patterns of equal frequency keep their insertion order.
SortedByFrequency(patterns) ==
  Arranged(patterns,
           StableOrder([i \in 1..Len(patterns) |-> -Len(patterns[i].findings)],
                       1..Len(patterns)))

\* The phases left in their insertion order.
SortedByAccuracy_Unsorted(phases) == phases

\* sorted(phases.items(), key=lambda x: x[1]["avg_accuracy"]): stable.
SortedByAccuracy(phases) ==
  Arranged(phases,
           StableOrder([i \in 1..Len(phases) |-> phases[i].avg_accuracy], 1..Len(phases)))

\* min(phases.items(), key=...) and max(...): the first of the phases with
\* the least (greatest) avg_accuracy.
Weakest(phases) ==
  phases[CHOOSE i \in 1..Len(phases) :
           /\ \A j \in 1..Len(phases) : phases[i].avg_accuracy <= phases[j].avg_accuracy
           /\ \A j \in 1..(i - 1) : phases[j].avg_accuracy > phases[i].avg_accuracy]

Strongest(phases) ==
  phases[CHOOSE i \in 1..Len(phases) :
           /\ \A j \in 1..Len(phases) : phases[i].avg_accuracy >= phases[j].avg_accuracy
           /\ \A j \in 1..(i - 1) : phases[j].avg_accuracy < phases[i].avg_accuracy]

\* len(set(i["game_index"] for i in instances))
GameCount(instances) == Cardinality({instances[i].game_index : i \in 1..Len(instances)})

\* Rec 1: most frequent tactical pattern (if 2+ instances).
PatternStep(sorted_patterns) ==
  IF sorted_patterns # <<>> /\ Len(sorted_patterns[1].findings) >= 2
    THEN LET instances == sorted_patterns[1].findings
             losses == [i \in 1..Len(instances) |-> instances[i].lost_material]
         IN  <<Recommendation("losing material to pattern",
                              Readable(sorted_patterns[1].key), "",
                              GameCount(instances),
                              RoundDiv(Sum(losses), Len(instances)))>>
    ELSE <<>>

\* The accuracies a (tenths of a percent) for which the float difference
\* a/10 - (a - 50)/10 comes out above 5.0: 8.3 - 3.3 = 5.000000000000001,
\* 32.2 - 27.2 = 5.000000000000004, 64.4 - 59.4 = 5.000000000000007, ...
FloatGapAboveFive ==
  {83, 88, 93, 98, 103, 108, 113, 118, 123, 128,
   161, 166, 171, 176, 181, 186, 191, 196, 201, 206,
   322, 327, 332, 337, 342, 347, 352, 357, 362, 367,
   644, 649, 654, 659, 664, 669, 674, 679, 684, 689}

\* gap = strongest - weakest; gap > 5, on floats of one decimal.
GapAboveFive(strongest, weakest) ==
  \/ strongest - weakest > 50
  \/ strongest - weakest = 50 /\ strongest \in FloatGapAboveFive

\* Rec 2: weakest phase vs strongest.
PhaseAdvice(weakest, strongest) ==
  IF GapAboveFive(strongest.avg_accuracy, weakest.avg_accuracy) \/ weakest.blunder_count >= 2
    THEN <<Recommendation("phase accuracy is low", weakest.phase, strongest.phase,
                          RoundDiv(weakest.avg_accuracy, 10),
                          RoundDiv(strongest.avg_accuracy, 10))>>
    ELSE <<>>

PhaseStep(phases) ==
  IF Len(phases) >= 2 THEN PhaseAdvice(Weakest(phases), Strongest(phases)) ELSE <<>>

\* Rec 3: second most frequent pattern.
SecondPatternStep(sorted_patterns) ==
  IF Len(sorted_patterns) >= 2 /\ Len(sorted_patterns[2].findings) >= 1
    THEN <<Recommendation("practice recognizing pattern",
                          Readable(sorted_patterns[2].key), "",
                          GameCount(sorted_patterns[2].findings), 0)>>
    ELSE <<>>

\* Fallback: blunder-heavy phases, in ascending accuracy.
RECURSIVE FallbackLoop(_, _)
FallbackLoop(recs, ordered) ==
  IF ordered = <<>> THEN recs
  ELSE LET stats == Head(ordered)
           next == IF stats.blunder_count > 0
                     THEN Append(recs, Recommendation("blunders in phase", stats.phase,
                                                      "", stats.blunder_count, 0))
                     ELSE recs
       IN  IF Len(next) >= 3 THEN next ELSE FallbackLoop(next, Tail(ordered))

KeepPlaying == Recommendation("keep playing", "", "", 0, 0)

\* The steps with the phase step run first.
Steps_PhaseFirst(sorted_patterns, phases) ==
  PhaseStep(phases) \o PatternStep(sorted_patterns) \o SecondPatternStep(sorted_patterns)

\* The three pattern and phase steps, in the order the code runs them.
Steps(sorted_patterns, phases) ==
  PatternStep(sorted_patterns) \o PhaseStep(phases) \o SecondPatternStep(sorted_patterns)

\* "if not recs and phases": the fallback loop.
WithFallback(recs, phases) ==
  IF recs = <<>> /\ phases # <<>>
    THEN FallbackLoop(recs, SortedByAccuracy(phases))
    ELSE recs

\* "if not recs": the generic advice.
OrKeepPlaying(recs) == IF recs = <<>> THEN <<KeepPlaying>> ELSE recs

\* recs[:3]
FirstThree(recs) == SubSeq(recs, 1, Min(3, Len(recs)))

_generate_recommendations(patterns, phases) ==
  FirstThree(OrKeepPlaying(WithFallback(
    Steps(SortedByFrequency(patterns), phases), phases)))

\* ---- _calculate_overall_accuracy ----

\* The figures one game contributes with a missing figure counted as 0.
GameAccuracies_MissingAsZero(game, user_color) ==
  LET summary == Get(game, "summary", <<>>)
      figure(key) == IF key \in DOMAIN summary THEN <<summary[key]>> ELSE <<0>>
  IN  IF user_color = "white" THEN figure("white_accuracy")
      ELSE IF user_color = "black" THEN figure("black_accuracy")
      ELSE figure("white_accuracy") \o figure("black_accuracy")

\* The accuracy figures one game contributes (tenths of a percent).
GameAccuracies(game, user_color) ==
  LET summary == Get(game, "summary", <<>>)
      figure(key) == IF key \in DOMAIN summary THEN <<summary[key]>> ELSE <<>>
  IN  IF user_color = "white" THEN figure("white_accuracy")
      ELSE IF user_color = "black" THEN figure("black_accuracy")
      ELSE figure("white_accuracy") \o figure("black_accuracy")

_calculate_overall_accuracy(games, player_colors) ==
  LET accuracies == Concat([i \in 1..Len(games) |-> GameAccuracies(games[i], player_colors[i])])
  IN  IF accuracies = <<>> THEN 0
      ELSE RoundDiv(Sum(accuracies), Len(accuracies))

\* ---- analyze_games ----

\* The returned dict.
Summary(total_games, patterns, phases, overall_accuracy) ==
  [total_games |-> total_games,
   tactical_patterns |-> patterns,
   phase_stats |-> phases,
   overall_accuracy |-> overall_accuracy,
   recommendations |-> _generate_recommendations(patterns, phases)]

\* The body with total_games counting the games that hold a move.
AnalyzeWith_GamesWithMoves(analyzed_games, colors) ==
  Summary(Cardinality({i \in 1..Len(analyzed_games) : analyzed_games[i].moves # <<>>}),
          _detect_tactical_patterns(analyzed_games, colors),
          _analyze_phase_performance(analyzed_games, colors),
          _calculate_overall_accuracy(analyzed_games, colors))

\* The body of analyze_games once player_colors is a list.
AnalyzeWith(analyzed_games, colors) ==
  Summary(Len(analyzed_games),
          _detect_tactical_patterns(analyzed_games, colors),
          _analyze_phase_performance(analyzed_games, colors),
          _calculate_overall_accuracy(analyzed_games, colors))

\* The returned summary, for an attribution list that covers the games.
\* player_colors is a tuple: empty for None, else holding the list.
analyze_games(analyzed_games, player_colors) ==
  AnalyzeWith(analyzed_games,
              IF player_colors = <<>>
                THEN [i \in 1..Len(analyzed_games) |-> NoneStr]
                ELSE player_colors[1])

\* ------------------------------------------------------------------------
\* Inputs: positions, moves, games, batches
\* ------------------------------------------------------------------------

Fen(rows, turn) == [placement |-> rows, turn |-> turn]

EmptyRank == <<"8">>

\* 4k3/8/4n3/8/3Q4/8/8/4K3 b: White's queen on d4 attacked by the knight on
\* e6 and defended by nothing.
FenHangingQueen ==
  Fen(<<<<"4", "k", "3">>, EmptyRank, <<"4", "n", "3">>, EmptyRank,
        <<"3", "Q", "4">>, EmptyRank, EmptyRank, <<"4", "K", "3">>>>, "b")

\* k3r3/8/8/8/4R3/8/8/4K3 b: White's rook on e4 is undefended, attacked by
\* the rook on e8 and pinned by it to the king on e1; Black's rook on e8 is
\* attacked by it and undefended too.
FenHangingAndPinned ==
  Fen(<<<<"k", "3", "r", "3">>, EmptyRank, EmptyRank, EmptyRank,
        <<"4", "R", "3">>, EmptyRank, EmptyRank, <<"4", "K", "3">>>>, "b")

\* k3r3/8/8/8/8/8/4B3/4K3 b: White's bishop on e2 is pinned by the rook on e8
\* and defended by its king.
FenPinned ==
  Fen(<<<<"k", "3", "r", "3">>, EmptyRank, EmptyRank, EmptyRank,
        EmptyRank, EmptyRank, <<"4", "B", "3">>, <<"4", "K", "3">>>>, "b")

\* 6k1/8/8/8/1n6/8/1B6/R3K3 b: the knight on b4 can fork king and rook from
\* c2 (or king and bishop from d3); nothing of White's hangs.
FenKnightFork ==
  Fen(<<<<"6", "k", "1">>, EmptyRank, EmptyRank, EmptyRank,
        <<"1", "n", "6">>, EmptyRank, <<"1", "B", "6">>, <<"R", "3", "K", "3">>>>, "b")

\* r6k/8/8/8/8/8/5PPP/6K1 b: White's king is shut in behind its pawns and
\* Black owns a rook.
FenBackRank ==
  Fen(<<<<"r", "6", "k">>, EmptyRank, EmptyRank, EmptyRank,
        EmptyRank, EmptyRank, <<"5", "P", "P", "P">>, <<"6", "K", "1">>>>, "b")

\* k3r3/8/8/8/8/8/3PBP2/4K3 b: the bishop on e2 is pinned by the rook on e8
\* and defended; the king on e1 has no square on the second rank and Black
\* owns a rook.  Nothing of White's hangs, no knight is on the board.
FenPinnedAndBackRank ==
  Fen(<<<<"k", "3", "r", "3">>, EmptyRank, EmptyRank, EmptyRank,
        EmptyRank, EmptyRank, <<"3", "P", "B", "P", "2">>, <<"4", "K", "3">>>>, "b")

\* 4k3/8/8/8/8/8/8/4K3 b: bare kings, no motif.
FenQuiet ==
  Fen(<<<<"4", "k", "3">>, EmptyRank, EmptyRank, EmptyRank,
        EmptyRank, EmptyRank, EmptyRank, <<"4", "K", "3">>>>, "b")

\* 4k4/8/8/8/8/8/8/4K3 b: the first rank row is nine squares wide.
FenTooWide ==
  Fen(<<<<"4", "k", "4">>, EmptyRank, EmptyRank, EmptyRank,
        EmptyRank, EmptyRank, EmptyRank, <<"4", "K", "3">>>>, "b")

\* 4k3/8/8/8/8/8/4K3 b: seven rank rows.
FenSevenRanks ==
  Fen(<<<<"4", "k", "3">>, EmptyRank, EmptyRank, EmptyRank,
        EmptyRank, EmptyRank, <<"4", "K", "3">>>>, "b")

\* A dict field that may be missing: opt is a tuple, empty when it is.
OptField(name, opt) == IF opt = <<>> THEN [x \in {} |-> x] ELSE name :> opt[1]

\* A MoveRecord as engine.analyze_game stores it (the fields patterns.py
\* reads); eval_change and fen_after are tuples, empty for a missing or None
\* field.
MoveRecord(classification, color, move_number, eval_change, fen_after) ==
  [classification |-> classification, color |-> color, move_number |-> move_number]
    @@ OptField("eval_change", eval_change) @@ OptField("fen_after", fen_after)

\* An AnalyzedGame: the moves and the summary's two accuracy figures.
AnalyzedGame(moves) ==
  [moves |-> moves, summary |-> [white_accuracy |-> 900, black_accuracy |-> 800]]

\* The most games a batch holds, and the most moves it holds in all.
MaxGames == 2

MaxMoves == 2

\* The ways to cut t moves into g consecutive games (a game may be empty).
Cuts(t, g) == {sizes \in [1..g -> 0..t] : Sum(sizes) = t}

\* The batch that cuts the move list ms into games of the given sizes.
Cut(ms, sizes) ==
  [i \in 1..Len(sizes) |->
     AnalyzedGame(SubSeq(ms, Sum(SubSeq(sizes, 1, i - 1)) + 1, Sum(SubSeq(sizes, 1, i))))]

\* The player_colors arguments tried with n games: None, and every list of
\* at most n entries (the shorter ones leave games without an entry).
ColorEntries == {"white", "black", NoneStr}

Attributions(n) == {<<>>} \cup {<<colors>> : colors \in UNION {[1..k -> ColorEntries] : k \in 0..n}}

\* Moves that differ in the position reached: each motif alone, two at
\* once, none, and a fen_after that is missing or does not parse.
DetectMoves ==
  {MoveRecord("blunder", "white", 12, <<-125>>, <<FenHangingAndPinned>>),
   MoveRecord("blunder", "white", 20, <<>>, <<FenPinnedAndBackRank>>),
   MoveRecord("mistake", "white", 21, <<-60>>, <<FenKnightFork>>),
   MoveRecord("blunder", "white", 30, <<-3>>, <<FenBackRank>>),
   MoveRecord("mistake", "white", 31, <<0>>, <<FenPinned>>),
   MoveRecord("blunder", "white", 8, <<-395>>, <<FenHangingQueen>>),
   MoveRecord("blunder", "white", 33, <<-150>>, <<FenQuiet>>),
   MoveRecord("blunder", "white", 34, <<-150>>, <<FenTooWide>>),
   MoveRecord("mistake", "white", 35, <<-70>>, <<FenSevenRanks>>),
   MoveRecord("blunder", "white", 36, <<-150>>, <<>>),
   MoveRecord("good", "white", 12, <<-10>>, <<FenHangingAndPinned>>)}

\* Moves of both colors on a position where either side has a motif.
ColorMoves ==
  {MoveRecord("blunder", "white", 12, <<-120>>, <<FenHangingAndPinned>>),
   MoveRecord("blunder", "black", 12, <<-130>>, <<FenHangingAndPinned>>),
   MoveRecord("mistake", "black", 13, <<-70>>, <<FenQuiet>>),
   MoveRecord("good", "white", 41, <<15>>, <<FenQuiet>>)}

\* Moves that differ in move number, evaluation change and classification.
PhaseMoves ==
  {MoveRecord("good", "white", 15, <<-10>>, <<FenQuiet>>),
   MoveRecord("excellent", "black", 16, <<50>>, <<FenQuiet>>),
   MoveRecord("blunder", "white", 16, <<-395>>, <<FenQuiet>>),
   MoveRecord("mistake", "black", 40, <<-75>>, <<FenQuiet>>),
   MoveRecord("good", "white", 41, <<>>, <<FenQuiet>>),
   MoveRecord("blunder", "black", 41, <<-150>>, <<FenPinned>>),
   MoveRecord("inaccuracy", "white", 1, <<-33>>, <<FenQuiet>>),
   MoveRecord("blunder", "white", 15, <<-250>>, <<FenHangingQueen>>)}

\* Moves that feed the recommendation steps: two motifs, two phases; a batch
\* of these holds up to MaxMoves + 1 moves, since the three pattern and phase
\* steps fire together only from three findings on.
RecommendationMoves ==
  {MoveRecord("blunder", "white", 12, <<-300>>, <<FenHangingAndPinned>>),
   MoveRecord("blunder", "white", 22, <<-120>>, <<FenPinned>>),
   MoveRecord("mistake", "white", 14, <<-60>>, <<FenPinned>>),
   MoveRecord("mistake", "white", 45, <<-55>>, <<FenKnightFork>>),
   MoveRecord("good", "white", 23, <<-8>>, <<FenQuiet>>),
   MoveRecord("blunder", "white", 13, <<-110>>, <<FenQuiet>>)}

\* 4k3/8/8/2n5/4B3/1N6/8/4K3 b: White's knight on b3 and bishop on e4 are
\* both attacked by the knight on c5 and undefended; that knight is attacked
\* by the knight on b3 and undefended too.
FenTwoHanging ==
  Fen(<<<<"4", "k", "3">>, EmptyRank, EmptyRank, <<"2", "n", "5">>,
        <<"4", "B", "3">>, <<"1", "N", "6">>, EmptyRank, <<"4", "K", "3">>>>, "b")

\* 4k3/8/8/8/8/8/8/r3K3 w: White's king is attacked by the rook on a1 and
\* nothing else of White's is on the board.
FenKingAttacked ==
  Fen(<<<<"4", "k", "3">>, EmptyRank, EmptyRank, EmptyRank,
        EmptyRank, EmptyRank, EmptyRank, <<"r", "3", "K", "3">>>>, "w")

\* 4k3/8/4n3/8/3Q1P2/8/8/4K3 b: the knight on e6 attacks White's queen on d4
\* and pawn on f4, both undefended.
FenQueenAndPawnHanging ==
  Fen(<<<<"4", "k", "3">>, EmptyRank, <<"4", "n", "3">>, EmptyRank,
        <<"3", "Q", "1", "P", "2">>, EmptyRank, EmptyRank, <<"4", "K", "3">>>>, "b")

\* Moves onto positions with several hanging pieces, or an attacked king.
HangingMoves ==
  {MoveRecord("blunder", "white", 18, <<>>, <<FenTwoHanging>>),
   MoveRecord("mistake", "black", 18, <<-80>>, <<FenKingAttacked>>),
   MoveRecord("blunder", "white", 19, <<>>, <<FenQueenAndPawnHanging>>),
   MoveRecord("blunder", "black", 19, <<>>, <<FenTwoHanging>>)}

\* Blunders that yield a pin and a hanging piece: a run of these files the
\* same number of findings under two patterns, in either order of first
\* appearance.
TieMoves ==
  {MoveRecord("blunder", "white", 22, <<-120>>, <<FenPinned>>),
   MoveRecord("blunder", "white", 8, <<-395>>, <<FenHangingQueen>>)}

\* Moves on a quiet position, one per line of loss and phase: phases whose
\* accuracies lie 5.0 or less apart, with one blunder or two.
GapMoves ==
  {MoveRecord("blunder", "white", 1, <<-135>>, <<FenQuiet>>),
   MoveRecord("blunder", "white", 2, <<-136>>, <<FenQuiet>>),
   MoveRecord("blunder", "white", 20, <<-191>>, <<FenQuiet>>),
   MoveRecord("mistake", "white", 21, <<-100>>, <<FenQuiet>>),
   MoveRecord("blunder", "white", 22, <<-136>>, <<FenQuiet>>),
   MoveRecord("blunder", "white", 41, <<-135>>, <<FenQuiet>>)}

\* Moves classified good or excellent, each with an eval_change that
\* classify_move maps to that classification (a loss of 20 centipawns at
\* most); the first stands on a position with a motif.
CleanMoves ==
  {MoveRecord("good", "white", 10, <<-12>>, <<FenHangingQueen>>),
   MoveRecord("excellent", "black", 10, <<0>>, <<FenQuiet>>),
   MoveRecord("good", "white", 30, <<-20>>, <<FenQuiet>>),
   MoveRecord("excellent", "white", 50, <<35>>, <<FenQuiet>>)}

\* 6k1/8/8/8/3n4/5R2/4Q3/4K3 b: the knight on d4 attacks the queen on e2 and
\* the rook on f3, both defended; no knight move forks more.
FenForkOnBoard ==
  Fen(<<<<"6", "k", "1">>, EmptyRank, EmptyRank, EmptyRank,
        <<"3", "n", "4">>, <<"5", "R", "2">>, <<"4", "Q", "3">>, <<"4", "K", "3">>>>, "b")

\* 6k1/8/8/8/3n4/1Q3N2/P3P1P1/5K2 b: the knight on d4 attacks the
\* queen on b3, the pawn on e2 and the knight on f3, all defended: one
\* valuable piece only, and no knight move reaches two.
FenNoValuableFork ==
  Fen(<<<<"6", "k", "1">>, EmptyRank, EmptyRank, EmptyRank,
        <<"3", "n", "4">>, <<"1", "Q", "3", "N", "2">>, <<"P", "3", "P", "1", "P", "1">>, <<"5", "K", "2">>>>, "b")

\* 6k1/8/8/8/1n6/8/1B6/R3K3 w: the position of FenKnightFork with White to
\* move: the legal moves are White's.
FenForkNotOnMove ==
  Fen(<<<<"6", "k", "1">>, EmptyRank, EmptyRank, EmptyRank,
        <<"1", "n", "6">>, EmptyRank, <<"1", "B", "6">>, <<"R", "3", "K", "3">>>>, "w")

\* 4r1k1/8/8/8/7b/8/4BR2/r2NK3 b: White's knight on d1 is pinned by the
\* rook on a1, the bishop on e2 by the rook on e8 and the rook on f2 by the
\* bishop on h4; each is defended.
FenThreePinned ==
  Fen(<<<<"4", "r", "1", "k", "1">>, EmptyRank, EmptyRank, EmptyRank,
        <<"7", "b">>, EmptyRank, <<"4", "B", "R", "2">>, <<"r", "2", "N", "K", "3">>>>, "b")

\* 4r1k1/8/8/8/8/8/4B3/r2NK3 b: White's knight on d1 and bishop on e2 are
\* pinned, by the rooks on a1 and e8.
FenTwoPinned ==
  Fen(<<<<"4", "r", "1", "k", "1">>, EmptyRank, EmptyRank, EmptyRank,
        EmptyRank, EmptyRank, <<"4", "B", "3">>, <<"r", "2", "N", "K", "3">>>>, "b")

\* 6k1/8/8/8/4K3/4N3/4r3/4q3 b: White's knight on e3 is pinned by the rook
\* on e2; Black's queen stands behind the rook on e1.
FenPinBehindSniper ==
  Fen(<<<<"6", "k", "1">>, EmptyRank, EmptyRank, EmptyRank,
        <<"4", "K", "3">>, <<"4", "N", "3">>, <<"4", "r", "3">>, <<"4", "q", "3">>>>, "b")

\* 6k1/8/8/4r3/8/4N3/4K3/4b3 b: White's knight on e3 is pinned by the rook
\* on e5; Black's bishop stands behind White's king on e1.
FenPinBehindKing ==
  Fen(<<<<"6", "k", "1">>, EmptyRank, EmptyRank, <<"4", "r", "3">>,
        EmptyRank, <<"4", "N", "3">>, <<"4", "K", "3">>, <<"4", "b", "3">>>>, "b")

\* r5k1/8/3b4/8/8/8/6P1/7K b: White's king in the corner behind the pawn
\* on g2; h2 is empty and attacked by the bishop on d6; Black owns a rook.
FenCornerCovered ==
  Fen(<<<<"r", "5", "k", "1">>, EmptyRank, <<"3", "b", "4">>, EmptyRank,
        EmptyRank, EmptyRank, <<"6", "P", "1">>, <<"7", "K">>>>, "b")

\* 6k1/8/3b4/8/8/8/6P1/7K b: the same without the rook.
FenCornerNoHeavy ==
  Fen(<<<<"6", "k", "1">>, EmptyRank, <<"3", "b", "4">>, EmptyRank,
        EmptyRank, EmptyRank, <<"6", "P", "1">>, <<"7", "K">>>>, "b")

\* r5k1/8/8/8/8/8/6P1/7K b: the same without the bishop: h2 is free.
FenCornerEscape ==
  Fen(<<<<"r", "5", "k", "1">>, EmptyRank, EmptyRank, EmptyRank,
        EmptyRank, EmptyRank, <<"6", "P", "1">>, <<"7", "K">>>>, "b")

\* r5k1/8/3b4/8/8/8/6Pp/7K b: Black's pawn on h2 is guarded by the
\* bishop on d6.
FenCornerGuardedPawn ==
  Fen(<<<<"r", "5", "k", "1">>, EmptyRank, <<"3", "b", "4">>, EmptyRank,
        EmptyRank, EmptyRank, <<"6", "P", "p">>, <<"7", "K">>>>, "b")

\* r5k1/8/8/8/8/8/6Pp/7K b: Black's pawn on h2 is unguarded.
FenCornerLoosePawn ==
  Fen(<<<<"r", "5", "k", "1">>, EmptyRank, EmptyRank, EmptyRank,
        EmptyRank, EmptyRank, <<"6", "P", "p">>, <<"7", "K">>>>, "b")

\* r5k1/8/8/8/8/8/5PKP/8 b: White's king stands on the second rank.
FenKingOffBackRank ==
  Fen(<<<<"r", "5", "k", "1">>, EmptyRank, EmptyRank, EmptyRank,
        EmptyRank, EmptyRank, <<"5", "P", "K", "P">>, EmptyRank>>, "b")

\* 6k1/5ppp/8/8/8/8/8/R3K3 w: Black's king is shut in on the eighth rank
\* and White owns a rook.
FenBlackBackRank ==
  Fen(<<<<"6", "k", "1">>, <<"5", "p", "p", "p">>, EmptyRank, EmptyRank,
        EmptyRank, EmptyRank, EmptyRank, <<"R", "3", "K", "3">>>>, "w")

\* k3r3/8/n7/8/8/8/4B3/4K3 b: the position of FenPinned with a black knight on
\* a6 that has four moves and forks nothing.
FenPinnedWithKnight ==
  Fen(<<<<"k", "3", "r", "3">>, EmptyRank, <<"n", "7">>, EmptyRank,
        EmptyRank, EmptyRank, <<"4", "B", "3">>, <<"4", "K", "3">>>>, "b")

\* Moves onto positions with knight forks on the board and a move away, and
\* with none.
ForkMoves ==
  {MoveRecord("blunder", "white", 14, <<-300>>, <<FenKnightFork>>),
   MoveRecord("blunder", "white", 15, <<>>, <<FenForkOnBoard>>),
   MoveRecord("mistake", "white", 16, <<-90>>, <<FenNoValuableFork>>),
   MoveRecord("blunder", "white", 17, <<>>, <<FenForkNotOnMove>>)}

\* Moves onto positions with one pinned piece, several, and further enemy
\* pieces on the line of the pin.
PinMoves ==
  {MoveRecord("blunder", "white", 24, <<>>, <<FenThreePinned>>),
   MoveRecord("blunder", "white", 25, <<>>, <<FenTwoPinned>>),
   MoveRecord("mistake", "white", 26, <<>>, <<FenPinBehindSniper>>),
   MoveRecord("blunder", "white", 27, <<>>, <<FenPinBehindKing>>),
   MoveRecord("blunder", "white", 28, <<>>, <<FenPinned>>)}

\* Moves onto positions with the king shut in on its back rank, or not.
BackRankMoves ==
  {MoveRecord("blunder", "white", 35, <<>>, <<FenBackRank>>),
   MoveRecord("blunder", "white", 36, <<>>, <<FenCornerCovered>>),
   MoveRecord("blunder", "white", 37, <<>>, <<FenCornerNoHeavy>>),
   MoveRecord("mistake", "white", 38, <<>>, <<FenCornerEscape>>),
   MoveRecord("blunder", "white", 39, <<>>, <<FenCornerGuardedPawn>>),
   MoveRecord("blunder", "white", 40, <<>>, <<FenCornerLoosePawn>>),
   MoveRecord("blunder", "white", 41, <<>>, <<FenKingOffBackRank>>),
   MoveRecord("blunder", "black", 41, <<>>, <<FenBlackBackRank>>)}

\* The most moves of the one game of a batch built for the recommendation
\* ranking.
MaxLongGame == 4

\* The games of the smallest batch the endpoint passes on.
MinBatchSize == 5

\* A game dict whose summary may be missing: summary is a tuple, empty when
\* the key is.
GameRecord(moves, summary) == [moves |-> moves] @@ OptField("summary", summary)

\* The summaries tried: both accuracy figures, one of them (the other
\* missing or None), neither, and no summary at all.  The figures are
\* multiples of 0.5, on which the float sum and mean are exact.
Summaries ==
  {<<[white_accuracy |-> 900, black_accuracy |-> 800]>>,
   <<[white_accuracy |-> 905]>>,
   <<[black_accuracy |-> 755]>>,
   <<<<>>>>,
   <<>>}

\* ------------------------------------------------------------------------
\* The state machine: one call of PatternDetector.analyze_games
\* ------------------------------------------------------------------------

VARIABLES
  analyzed_games,  \* the batch passed in
  player_colors,   \* the attribution argument: <<>> for None, else <<list>>
  pc,              \* "call" before the call, then "returned" or "raised"
  result,          \* <<>> before the return, then <<the summary>>
  earlier,         \* the calls completed before: their arguments and outcomes
  request,         \* the request analyze_batch serves: <<>> when there is none
  errors,          \* analyze_batch's errors list
  engine_calls,    \* how many times analyze_batch has called analyze_game
  detector_calls,  \* how many times analyze_batch has called analyze_games
  engine_options,  \* the options set on the engine process by configure
  tasks            \* the get_move and analyze calls made on the shared engine

vars ==
  <<analyzed_games, player_colors, pc, result, earlier, request, errors,
    engine_calls, detector_calls, engine_options, tasks>>

\* The shared engine: chess_engine = ChessEngine(), one process for all requests.
chess_engine == <<engine_options, tasks>>

\* What a call of analyze_games leaves alone besides its arguments.
endpoint_vars == <<request, errors, engine_calls, detector_calls, chess_engine>>

\* The engine after start(): popen_uci sets neither option, the strength
\* limit is off (the UCI default) and UCI_Elo is the engine's own default.
StartedOptions == [UCI_LimitStrength |-> FALSE, UCI_Elo |-> <<>>]

\* The batch is any of at most MaxGames games holding at most n moves in all,
\* the moves drawn from the given set.
BatchOver(moves, n) ==
  \E k \in 0..n, g \in 0..MaxGames :
    \E ms \in [1..k -> moves] :
      \E sizes \in Cuts(k, g) : analyzed_games = Cut(ms, sizes)

\* The batch is one game of at most MaxLongGame moves drawn from the set.
OneGameOver(moves) ==
  \E k \in 0..MaxLongGame :
    \E ms \in [1..k -> moves] : analyzed_games = <<AnalyzedGame(ms)>>

\* The batch is MinBatchSize games, each of one move of the set or none.
SmallGamesOver(moves) ==
  analyzed_games \in
    [1..MinBatchSize -> {AnalyzedGame(<<>>)} \cup {AnalyzedGame(<<m>>) : m \in moves}]

\* The batch is at most MaxGames games without moves, each with a summary
\* of the set.
SummariesOver(summaries) ==
  \E g \in 0..MaxGames :
    analyzed_games \in [1..g -> {GameRecord(<<>>, summary) : summary \in summaries}]

Init ==
  /\ pc = "call"
  /\ result = <<>>
  /\ earlier = <<>>
  /\ request = <<>>
  /\ errors = <<>>
  /\ engine_calls = 0
  /\ detector_calls = 0
  /\ engine_options = StartedOptions
  /\ tasks = <<>>
  /\ \/ /\ BatchOver(DetectMoves, MaxMoves)
        /\ player_colors = <<>>
     \/ /\ BatchOver(ColorMoves, MaxMoves)
        /\ player_colors \in Attributions(Len(analyzed_games))
     \/ /\ BatchOver(PhaseMoves, MaxMoves)
        /\ player_colors \in {<<>>, <<[i \in 1..Len(analyzed_games) |-> "white"]>>}
     \/ /\ BatchOver(RecommendationMoves, MaxMoves + 1)
        /\ player_colors = <<>>
     \/ /\ BatchOver(HangingMoves, MaxMoves)
        /\ player_colors = <<>>
     \/ /\ OneGameOver(TieMoves)
        /\ player_colors = <<>>
     \/ /\ OneGameOver(GapMoves)
        /\ player_colors = <<>>
     \/ /\ SmallGamesOver(CleanMoves)
        /\ player_colors = <<>>
     \/ /\ SummariesOver(Summaries)
        /\ player_colors \in {<<>>} \cup {<<colors>> : colors \in [1..Len(analyzed_games) -> ColorEntries]}

\* analyze_games returning a summary whose findings follow those of the call
\* before, as if the patterns dict outlived the call.
AnalyzeGamesReturns_KeepsFindings ==
  /\ pc = "call"
  /\ ~(player_colors # <<>> /\ RaisesIndexError(analyzed_games, player_colors[1]))
  /\ pc' = "returned"
  /\ result' =
       <<[analyze_games(analyzed_games, player_colors) EXCEPT
            !.tactical_patterns =
              (IF earlier # <<>> /\ earlier[Len(earlier)].result # <<>>
                 THEN earlier[Len(earlier)].result[1].tactical_patterns
                 ELSE <<>>) \o @]>>
  /\ UNCHANGED <<analyzed_games, player_colors, earlier, endpoint_vars>>

\* analyze_games runs to its return.
AnalyzeGamesReturns ==
  /\ pc = "call"
  /\ ~(player_colors # <<>> /\ RaisesIndexError(analyzed_games, player_colors[1]))
  /\ pc' = "returned"
  /\ result' = <<analyze_games(analyzed_games, player_colors)>>
  /\ UNCHANGED <<analyzed_games, player_colors, earlier, endpoint_vars>>

\* analyze_games leaves by the IndexError of player_colors[game_idx].
AnalyzeGamesRaises ==
  /\ pc = "call"
  /\ player_colors # <<>>
  /\ RaisesIndexError(analyzed_games, player_colors[1])
  /\ pc' = "raised"
  /\ UNCHANGED <<analyzed_games, player_colors, result, earlier, endpoint_vars>>

Next == AnalyzeGamesReturns \/ AnalyzeGamesRaises

Spec == Init /\ [][Next]_vars

\* ------------------------------------------------------------------------
\* The state machine: one call of analyze_games on a game of motif positions
\* ------------------------------------------------------------------------

\* The most moves of the game.
MaxMotifMoves == 2

MotifMoves == ForkMoves \cup PinMoves \cup BackRankMoves

\* One game of moves onto the motif positions, passed without attribution,
\* attributed to White, or with an attribution list that is too short.
DetectorInit ==
  /\ pc = "call"
  /\ result = <<>>
  /\ earlier = <<>>
  /\ request = <<>>
  /\ errors = <<>>
  /\ engine_calls = 0
  /\ detector_calls = 0
  /\ engine_options = StartedOptions
  /\ tasks = <<>>
  /\ \E k \in 0..MaxMotifMoves :
       \E ms \in [1..k -> MotifMoves] : analyzed_games = <<AnalyzedGame(ms)>>
  /\ player_colors \in {<<>>, <<<<"white">>>>, <<<<>>>>}

DetectorSpec == DetectorInit /\ [][Next]_vars

\* ------------------------------------------------------------------------
\* The state machine: calls of analyze_games one after another
\* ------------------------------------------------------------------------

\* The most calls made in a row.
MaxCalls == 3

\* The call just completed: its arguments and its outcome.
CompletedCall ==
  [analyzed_games |-> analyzed_games, player_colors |-> player_colors,
   pc |-> pc, result |-> result]

\* Batches passed between two calls with the same arguments.
OtherBatches ==
  {<<AnalyzedGame(<<m>>)>> :
     m \in TieMoves \cup {MoveRecord("blunder", "white", 23, <<>>, <<FenPinnedWithKnight>>)}}

RepeatInit ==
  /\ pc = "call"
  /\ result = <<>>
  /\ earlier = <<>>
  /\ request = <<>>
  /\ errors = <<>>
  /\ engine_calls = 0
  /\ detector_calls = 0
  /\ engine_options = StartedOptions
  /\ tasks = <<>>
  /\ BatchOver(ColorMoves, MaxMoves)
  /\ player_colors \in Attributions(Len(analyzed_games))

\* The caller calls analyze_games again, on the same detector or a new one
\* (a PatternDetector has no attribute): with the arguments of a call made
\* before, or with another batch.
CallAgain ==
  /\ pc \in {"returned", "raised"}
  /\ Len(earlier) < MaxCalls - 1
  /\ earlier' = Append(earlier, CompletedCall)
  /\ pc' = "call"
  /\ result' = <<>>
  /\ \/ \E k \in 1..Len(earlier') :
          /\ analyzed_games' = earlier'[k].analyzed_games
          /\ player_colors' = earlier'[k].player_colors
     \/ /\ analyzed_games' \in OtherBatches
        /\ player_colors' = <<>>
  /\ UNCHANGED endpoint_vars

RepeatNext == AnalyzeGamesReturns \/ AnalyzeGamesRaises \/ CallAgain

RepeatSpec == RepeatInit /\ [][RepeatNext]_vars

\* ------------------------------------------------------------------------
\* engine.py: ChessEngine.analyze_game
\* ------------------------------------------------------------------------

\* An evaluation as analyze returns it, White-positive (info['score'].white()):
\* type "cp" with the value in hundredths of a pawn, or type "mate" with the
\* moves to mate.
Evaluation(type, value) == [type |-> type, value |-> value]

\* The evaluation in centipawns as analyze_game converts it; white is
\* board.turn == WHITE before the move, board.turn == BLACK after it, that is
\* whether the mover is White.
EvalCp(evaluation, white) ==
  IF evaluation.type = "mate"
    THEN IF evaluation.value > 0
           THEN (IF white THEN 10000 ELSE -10000)
           ELSE (IF white THEN -10000 ELSE 10000)
    ELSE evaluation.value

\* round(evaluation["value"], 2), in hundredths.
RecordedValue(evaluation) ==
  IF evaluation.type = "mate" THEN evaluation.value * 100 ELSE evaluation.value

\* The centipawn loss computed with the evaluation after the move taken
\* White-positive, as analyze returns it.
CpLoss_WhitePositive(color, eval_before_cp, eval_after_cp) ==
  IF color = "white"
    THEN eval_before_cp - eval_after_cp
    ELSE eval_after_cp - eval_before_cp

\* The centipawn loss as analyze_game computes it.
CpLoss(color, eval_before_cp, eval_after_cp) ==
  IF color = "white"
    THEN eval_before_cp - (-eval_after_cp)
    ELSE (-eval_before_cp) - eval_after_cp

classify_move(cp_loss) ==
  IF cp_loss <= 0 THEN "excellent"
  ELSE IF cp_loss <= 20 THEN "good"
  ELSE IF cp_loss <= 50 THEN "inaccuracy"
  ELSE IF cp_loss <= 100 THEN "mistake"
  ELSE "blunder"

\* calculate_accuracy, in tenths of a percent, of losses in centipawns.
calculate_accuracy(cp_losses) ==
  LET total == Sum([i \in 1..Len(cp_losses) |-> Abs(cp_losses[i])])
      n == Len(cp_losses)
  IN  IF cp_losses = <<>> THEN 1000
      ELSE IF total >= 200 * n THEN 0
      ELSE RoundDiv(2000 * n - 10 * total, 2 * n)

\* The storage analyze_game fills while it walks the mainline.
EmptyAnalysis ==
  [moves_analysis |-> <<>>,
   white_cp_losses |-> <<>>, black_cp_losses |-> <<>>,
   white_counts |-> [blunder |-> 0, mistake |-> 0, inaccuracy |-> 0],
   black_counts |-> [blunder |-> 0, mistake |-> 0, inaccuracy |-> 0],
   critical_moments |-> <<>>,
   move_number |-> 1]

\* The counts with the classification tallied.
Tally(counts, classification) ==
  IF classification \in DOMAIN counts
    THEN [counts EXCEPT ![classification] = @ + 1]
    ELSE counts

\* One pass of the loop body for a move whose two evaluations succeeded.
RecordMove(st, ply, color) ==
  LET white == (color = "white")
      cp_loss == CpLoss(color, EvalCp(ply.before[1], white), EvalCp(ply.after[1], white))
      classification == classify_move(cp_loss)
      record ==
        MoveRecord(classification, color, st.move_number, <<-cp_loss>>, <<ply.fen_after>>)
          @@ [eval_before |-> RecordedValue(ply.before[1]),
              eval_after |-> RecordedValue(ply.after[1])]
  IN  [moves_analysis |-> Append(st.moves_analysis, record),
       white_cp_losses |->
         IF white THEN Append(st.white_cp_losses, Max(0, cp_loss)) ELSE st.white_cp_losses,
       black_cp_losses |->
         IF white THEN st.black_cp_losses ELSE Append(st.black_cp_losses, Max(0, cp_loss)),
       white_counts |-> IF white THEN Tally(st.white_counts, classification) ELSE st.white_counts,
       black_counts |-> IF white THEN st.black_counts ELSE Tally(st.black_counts, classification),
       critical_moments |->
         IF classification = "blunder"
           THEN Append(st.critical_moments, st.move_number)
           ELSE st.critical_moments,
       move_number |-> IF white THEN st.move_number ELSE st.move_number + 1]

\* One pass of the loop body: a move whose position could not be analyzed,
\* before or after, is skipped by continue.
AnalyzeMove(st, ply, color) ==
  IF ply.before = <<>> \/ ply.after = <<>> THEN st ELSE RecordMove(st, ply, color)

\* The loop over game.mainline() from half move i on; the game starts with
\* White to move and the turn alternates.
RECURSIVE AnalyzeMainline(_, _, _)
AnalyzeMainline(st, plies, i) ==
  IF i > Len(plies) THEN st
  ELSE AnalyzeMainline(AnalyzeMove(st, plies[i], IF i % 2 = 1 THEN "white" ELSE "black"),
                       plies, i + 1)

\* The dict analyze_game returns from the filled storage.
GameResult(st) ==
  [moves |-> st.moves_analysis,
   summary |->
     [total_moves |-> Len(st.moves_analysis),
      white_accuracy |-> calculate_accuracy(st.white_cp_losses),
      black_accuracy |-> calculate_accuracy(st.black_cp_losses),
      white_blunders |-> st.white_counts.blunder,
      white_mistakes |-> st.white_counts.mistake,
      white_inaccuracies |-> st.white_counts.inaccuracy,
      black_blunders |-> st.black_counts.blunder,
      black_mistakes |-> st.black_counts.mistake,
      black_inaccuracies |-> st.black_counts.inaccuracy,
      critical_moments |-> SubSeq(st.critical_moments, 1, Min(5, Len(st.critical_moments)))]]

\* analyze_game on a PGN that parses, with the engine started.
analyze_game(pgn) == GameResult(AnalyzeMainline(EmptyAnalysis, pgn.plies, 1))

\* ------------------------------------------------------------------------
\* main.py: analyze_batch
\* ------------------------------------------------------------------------

\* str.lower() on the letters the names use.
LowerCase == [c \in {"A", "B", "J"} |-> IF c = "A" THEN "a" ELSE IF c = "B" THEN "b" ELSE "j"]

Lower(name) ==
  [i \in 1..Len(name) |-> IF name[i] \in DOMAIN LowerCase THEN LowerCase[name[i]] ELSE name[i]]

\* needle in hay, for strings given letter by letter.
Contains(needle, hay) ==
  \E i \in 0..(Len(hay) - Len(needle)) : SubSeq(hay, i + 1, i + Len(needle)) = needle

\* The color the user played: None without a username, else by the White and
\* Black headers.  username is a tuple: empty for None, else holding the name.
UserColor(username, pgn) ==
  IF username = <<>> \/ username[1] = <<>> THEN NoneStr
  ELSE IF Contains(Lower(username[1]), Lower(pgn.white)) THEN "white"
  ELSE IF Contains(Lower(username[1]), Lower(pgn.black)) THEN "black"
  ELSE NoneStr

\* A PGN: whether read_game finds a game in it, the White and Black headers,
\* and per half move of the mainline what the engine answers for the
\* position before it and after it (a tuple, empty when analyze raises) and
\* the position reached.
Pgn(valid, white, black, plies) ==
  [valid |-> valid, white |-> white, black |-> black, plies |-> plies]

Ply(before, after, fen_after) == [before |-> before, after |-> after, fen_after |-> fen_after]

\* A PGN read_game finds no game in.
PgnEmpty == Pgn(FALSE, <<>>, <<>>, <<>>)

\* Ann against Bob: White holds +0.50; Black's reply cannot be analyzed
\* afterwards; White then misses a mate and leaves the queen hanging.
PgnAnnBob ==
  Pgn(TRUE, <<"A", "n", "n">>, <<"B", "o", "b">>,
      <<Ply(<<Evaluation("cp", 50)>>, <<Evaluation("cp", 50)>>, FenQuiet),
        Ply(<<Evaluation("cp", 50)>>, <<>>, FenQuiet),
        Ply(<<Evaluation("mate", 2)>>, <<Evaluation("cp", 120)>>, FenHangingQueen)>>)

\* Bob against Joann: a level opening move, then Black drops 0.20.
PgnBobJoann ==
  Pgn(TRUE, <<"B", "o", "b">>, <<"J", "o", "a", "n", "n">>,
      <<Ply(<<Evaluation("cp", 0)>>, <<Evaluation("cp", 0)>>, FenQuiet),
        Ply(<<Evaluation("cp", 0)>>, <<Evaluation("cp", 20)>>, FenQuiet)>>)

\* A game without player names: White drops from +1.20 to -0.50 into a pin,
\* Black answers by giving the advantage back.
PgnUnnamed ==
  Pgn(TRUE, <<"?">>, <<"?">>,
      <<Ply(<<Evaluation("cp", 120)>>, <<Evaluation("cp", -50)>>, FenPinned),
        Ply(<<Evaluation("cp", -50)>>, <<Evaluation("cp", 100)>>, FenQuiet)>>)

Pgns == {PgnEmpty, PgnAnnBob, PgnBobJoann, PgnUnnamed}

\* The usernames tried: none, the empty string, and one that is part of two
\* players' names.
Usernames == {<<>>, <<<<>>>>, <<<<"a", "n", "n">>>>}

\* The most PGNs of a request.
MaxPgns == 6

\* A request has arrived; the lifespan handler has started the engine.
BatchInit ==
  /\ pc = "received"
  /\ \E n \in 0..MaxPgns :
       \E pgns \in [1..n -> Pgns], username \in Usernames :
         request = [pgns |-> pgns, username |-> username]
  /\ analyzed_games = <<>>
  /\ player_colors = <<<<>>>>
  /\ errors = <<>>
  /\ result = <<>>
  /\ earlier = <<>>
  /\ engine_calls = 0
  /\ detector_calls = 0
  /\ engine_options = StartedOptions
  /\ tasks = <<>>

\* len(request.pgns) < 5: HTTP 400 before the loop.
RejectSmallRequest ==
  /\ pc = "received"
  /\ Len(request.pgns) < MinBatchSize
  /\ pc' = "rejected"
  /\ UNCHANGED <<analyzed_games, player_colors, result, earlier, endpoint_vars>>

\* The request is large enough: the loop is entered.
EnterLoop ==
  /\ pc = "received"
  /\ ~(Len(request.pgns) < MinBatchSize)
  /\ pc' = "loop"
  /\ UNCHANGED <<analyzed_games, player_colors, result, earlier, endpoint_vars>>

\* The PGN the loop is at: one engine call is made per PGN passed.
CurrentPgn == request.pgns[engine_calls + 1]

\* One pass of the loop in which analyze_game returns.
LoopAnalyzed ==
  /\ pc = "loop"
  /\ engine_calls < Len(request.pgns)
  /\ CurrentPgn.valid
  /\ engine_calls' = engine_calls + 1
  /\ analyzed_games' = Append(analyzed_games, analyze_game(CurrentPgn))
  /\ player_colors' = <<Append(player_colors[1], UserColor(request.username, CurrentPgn))>>
  /\ UNCHANGED <<pc, result, earlier, request, errors, detector_calls, chess_engine>>

\* A failed pass of the loop that still files a color for the game.
LoopFailed_FilesColor ==
  /\ pc = "loop"
  /\ engine_calls < Len(request.pgns)
  /\ ~CurrentPgn.valid
  /\ engine_calls' = engine_calls + 1
  /\ errors' = Append(errors, [game |-> engine_calls + 1, text |-> "Invalid PGN"])
  /\ player_colors' = <<Append(player_colors[1], NoneStr)>>
  /\ UNCHANGED <<pc, analyzed_games, result, earlier, request, detector_calls, chess_engine>>

\* One pass of the loop in which analyze_game raises ValueError.
LoopFailed ==
  /\ pc = "loop"
  /\ engine_calls < Len(request.pgns)
  /\ ~CurrentPgn.valid
  /\ engine_calls' = engine_calls + 1
  /\ errors' = Append(errors, [game |-> engine_calls + 1, text |-> "Invalid PGN"])
  /\ UNCHANGED <<pc, analyzed_games, player_colors, result, earlier, request, detector_calls, chess_engine>>

\* len(analyzed_games) < 5 after the loop: HTTP 400.
RejectTooFewAnalyzed ==
  /\ pc = "loop"
  /\ engine_calls = Len(request.pgns)
  /\ Len(analyzed_games) < MinBatchSize
  /\ pc' = "rejected"
  /\ UNCHANGED <<analyzed_games, player_colors, result, earlier, endpoint_vars>>

\* The detector is called and the response returned, the gate left out.
DetectPatterns_Ungated ==
  /\ pc = "loop"
  /\ engine_calls = Len(request.pgns)
  /\ detector_calls' = detector_calls + 1
  /\ result' = <<analyze_games(analyzed_games, player_colors)>>
  /\ pc' = "responded"
  /\ UNCHANGED <<analyzed_games, player_colors, earlier, request, errors, engine_calls, chess_engine>>

\* Enough games were analyzed: the detector is called and the response
\* returned.
DetectPatterns ==
  /\ pc = "loop"
  /\ engine_calls = Len(request.pgns)
  /\ ~(Len(analyzed_games) < MinBatchSize)
  /\ detector_calls' = detector_calls + 1
  /\ result' = <<analyze_games(analyzed_games, player_colors)>>
  /\ pc' = "responded"
  /\ UNCHANGED <<analyzed_games, player_colors, earlier, request, errors, engine_calls, chess_engine>>

BatchNext ==
  \/ RejectSmallRequest
  \/ EnterLoop
  \/ LoopAnalyzed
  \/ LoopFailed
  \/ RejectTooFewAnalyzed
  \/ DetectPatterns

BatchSpec == BatchInit /\ [][BatchNext]_vars

\* ------------------------------------------------------------------------
\* Properties of a call of analyze_games
\* ------------------------------------------------------------------------

\* The attribution entry of game g (counted from 1): None when the list is
\* absent or holds no entry for the game.
AttributionOf(g) ==
  IF player_colors = <<>> \/ g \notin DOMAIN player_colors[1]
    THEN NoneStr
    ELSE player_colors[1][g]

Attributed(g) == AttributionOf(g) \in {"white", "black"}

\* The attribution list that treats every game without an entry as "scan
\* both sides".
PaddedColors == [g \in 1..Len(analyzed_games) |-> AttributionOf(g)]

MovesIn(g) == analyzed_games[g].moves

\* The places <<game, move>> of the batch, and the move at a place.
Places ==
  UNION {{<<g, j>> : j \in 1..Len(MovesIn(g))} : g \in 1..Len(analyzed_games)}

MoveAt(x) == MovesIn(x[1])[x[2]]

IsError(m) == m.classification \in {"blunder", "mistake"}

\* A move of the attributed color, or any move of an unattributed game.
Counted(x) == ~Attributed(x[1]) \/ MoveAt(x).color = AttributionOf(x[1])

HasFen(m) == "fen_after" \in DOMAIN m

BadFen(m) == ~HasFen(m) \/ ~FenParses(m.fen_after)

\* The returned summary's parts.
Buckets == result[1].tactical_patterns

PhaseStats == result[1].phase_stats

Recommendations == result[1].recommendations

\* The slots <<bucket, position>> of the findings, and the finding in a slot.
Slots == UNION {{<<b, k>> : k \in 1..Len(Buckets[b].findings)} : b \in 1..Len(Buckets)}

FindingAt(y) == Buckets[y[1]].findings[y[2]]

\* The finding f may stem from the move at place x: same game, move number
\* and position.
StemsFrom(f, x) ==
  /\ f.game_index = x[1] - 1
  /\ f.move_number = MoveAt(x).move_number
  /\ HasFen(MoveAt(x))
  /\ f.fen = MoveAt(x).fen_after

\* The findings that share the finding f's game, move number and position.
Alike(f) ==
  {z \in Slots : /\ FindingAt(z).game_index = f.game_index
                 /\ FindingAt(z).move_number = f.move_number
                 /\ FindingAt(z).fen = f.fen}

\* The four patterns in the stated priority order.
PriorityOrder == <<"hanging_piece", "knight_fork", "pin", "back_rank">>

\* What the pattern's detector returns on the position after the move m,
\* the mover being the victim.
DetectorOutput(pattern, m) ==
  CASE pattern = "hanging_piece" ->
         detect_hanging_pieces(Board(m.fen_after), m.color = "white")
    [] pattern = "knight_fork" ->
         detect_knight_fork(Board(m.fen_after), m.color # "white")
    [] pattern = "pin" -> detect_pin(Board(m.fen_after), m.color = "white")
    [] pattern = "back_rank" -> detect_back_rank(Board(m.fen_after), m.color = "white")

Fires(pattern, m) == DetectorOutput(pattern, m) # <<>>

\* The first pattern of the priority order whose detector fires on m, as a
\* tuple: empty when none fires.
FirstFiring(m) ==
  LET firing == {k \in 1..Len(PriorityOrder) : Fires(PriorityOrder[k], m)}
  IN  IF firing = {} THEN <<>>
      ELSE <<PriorityOrder[CHOOSE k \in firing : \A l \in firing : k <= l]>>

\* The move at place x is scanned: an error of a counted color whose
\* position parses.
Scanned(x) == IsError(MoveAt(x)) /\ Counted(x) /\ ~BadFen(MoveAt(x))

\* The places in scan order: games in order, moves in order.
PlacesInOrder ==
  Concat([g \in 1..Len(analyzed_games) |-> [j \in 1..Len(MovesIn(g)) |-> <<g, j>>]])

\* The findings filed under a pattern (none when the pattern has no bucket).
Bucket(pattern) ==
  Concat([b \in 1..Len(Buckets) |->
            IF Buckets[b].key = pattern THEN Buckets[b].findings ELSE <<>>])

\* C1: each scanned blunder or mistake contributes at most one finding
\* across all buckets and a move of any other classification none: the
\* findings that share a game, move number and position are no more than the
\* blunders and mistakes of that game with that move number and position,
\* and the findings in all are no more than the blunders and mistakes of the
\* batch.
C1_AtMostOneFindingPerError ==
  pc = "returned" =>
    /\ \A y \in Slots :
         Cardinality(Alike(FindingAt(y)))
           <= Cardinality({x \in Places : IsError(MoveAt(x)) /\ StemsFrom(FindingAt(y), x)})
    /\ Cardinality(Slots) <= Cardinality({x \in Places : IsError(MoveAt(x))})

\* A batch with a blunder whose position shows two motifs at once and a
\* well-played move on a position with a motif, and one finding in all.
C1_Witness ==
  /\ pc = "returned"
  /\ \E x \in Places :
       /\ IsError(MoveAt(x)) /\ Scanned(x)
       /\ Cardinality({k \in 1..Len(PriorityOrder) : Fires(PriorityOrder[k], MoveAt(x))}) >= 2
  /\ \E x \in Places :
       /\ ~IsError(MoveAt(x)) /\ ~BadFen(MoveAt(x))
       /\ FirstFiring(MoveAt(x)) # <<>>
  /\ Cardinality(Slots) = 1

\* C2: the finding of a scanned blunder or mistake is tagged with the first
\* pattern, in the order hanging_piece, knight_fork, pin, back_rank, whose
\* detector returns a result on the position after the move: the findings
\* filed under each pattern are, in scan order, the scanned moves whose first
\* firing pattern it is, and no bucket has another key.
C2_FirstDetectorInPriorityOrderWins ==
  pc = "returned" =>
    /\ \A b \in 1..Len(Buckets) : \E k \in 1..Len(PriorityOrder) : Buckets[b].key = PriorityOrder[k]
    /\ \A k \in 1..Len(PriorityOrder) :
         LET expected == SelectSeq(PlacesInOrder,
                                   LAMBDA x : Scanned(x)
                                              /\ FirstFiring(MoveAt(x)) = <<PriorityOrder[k]>>)
             filed == Bucket(PriorityOrder[k])
         IN  /\ Len(filed) = Len(expected)
             /\ \A i \in 1..Len(filed) :
                  /\ StemsFrom(filed[i], expected[i])
                  /\ filed[i].pattern = PriorityOrder[k]

\* A scanned blunder on a position where the mover has a hanging piece and
\* a pinned piece, with a finding filed under hanging_piece and none under
\* pin.
C2_Witness ==
  /\ pc = "returned"
  /\ \E x \in Places :
       /\ Scanned(x)
       /\ Fires("hanging_piece", MoveAt(x))
       /\ Fires("pin", MoveAt(x))
       /\ \E i \in 1..Len(Bucket("hanging_piece")) : StemsFrom(Bucket("hanging_piece")[i], x)
  /\ Bucket("pin") = <<>>

\* C3: in a game attributed to white or black the findings stem from that
\* color's blunders and mistakes only; in an unattributed game the blunders
\* and mistakes of both colors are scanned, so the findings that share a
\* move number and position are as many as the moves of either color, with
\* that number and position, on which a detector fires.
C3_OnlyAttributedColorScanned ==
  pc = "returned" =>
    /\ \A y \in Slots : FindingAt(y).game_index + 1 \in 1..Len(analyzed_games)
    /\ \A y \in Slots :
         LET f == FindingAt(y)
             g == f.game_index + 1
             erred == {x \in Places : IsError(MoveAt(x)) /\ StemsFrom(f, x)}
         IN  IF Attributed(g)
               THEN Cardinality(Alike(f))
                      <= Cardinality({x \in erred : MoveAt(x).color = AttributionOf(g)})
               ELSE Cardinality(Alike(f))
                      = Cardinality({x \in erred : FirstFiring(MoveAt(x)) # <<>>})
    /\ \A x \in Places :
         (~Attributed(x[1]) /\ IsError(MoveAt(x)) /\ ~BadFen(MoveAt(x))
            /\ FirstFiring(MoveAt(x)) # <<>>)
           => \E y \in Slots : StemsFrom(FindingAt(y), x)

\* A game attributed to black in which both colors blundered on a position
\* with a motif against either, and one finding in all.
C3_Witness ==
  /\ pc = "returned"
  /\ \E x \in Places, z \in Places :
       /\ x[1] = z[1]
       /\ AttributionOf(x[1]) = "black"
       /\ MoveAt(x).color = "white" /\ MoveAt(z).color = "black"
       /\ IsError(MoveAt(x)) /\ IsError(MoveAt(z))
       /\ FirstFiring(MoveAt(x)) # <<>> /\ FirstFiring(MoveAt(z)) # <<>>
  /\ Cardinality(Slots) = 1

\* C4: with the attribution list absent or shorter than the game list the
\* call still returns a summary, the one of the batch with every game that
\* has no entry scanned on both sides.
C4_ShortAttributionStillReturns ==
  pc # "call" =>
    /\ pc = "returned"
    /\ result = <<AnalyzeWith(analyzed_games, PaddedColors)>>

\* An attribution list shorter than the game list, and the call left by the
\* IndexError.
C4_Witness ==
  /\ pc = "raised"
  /\ player_colors # <<>>
  /\ Len(player_colors[1]) < Len(analyzed_games)

\* The batch without the move at place x.
Without(x) ==
  [analyzed_games EXCEPT
     ![x[1]].moves = SubSeq(@, 1, x[2] - 1) \o SubSeq(@, x[2] + 1, Len(@))]

\* C5: a blunder or mistake whose fen_after is missing or does not parse
\* yields no finding and no error: the call returns whenever the attribution
\* covers the games, every finding's position parses, and the findings are
\* those of the batch without the move.
C5_BadFenSkipped ==
  /\ pc = "raised" => RaisesIndexError(analyzed_games, player_colors[1])
  /\ pc = "returned" =>
       /\ \A y \in Slots : FenParses(FindingAt(y).fen)
       /\ \A x \in Places :
            (IsError(MoveAt(x)) /\ BadFen(MoveAt(x)))
              => Buckets = _detect_tactical_patterns(Without(x), PaddedColors)

\* A game whose first move is a blunder with a fen_after that does not
\* parse and whose next move yields a finding.
C5_Witness ==
  /\ pc = "returned"
  /\ \E x \in Places :
       /\ x[2] = 1
       /\ IsError(MoveAt(x)) /\ HasFen(MoveAt(x)) /\ BadFen(MoveAt(x))
       /\ \E y \in Slots : StemsFrom(FindingAt(y), <<x[1], 2>>)

\* C6: a finding's lost_material is the absolute value of the move's
\* eval_change to one decimal when that is positive, else the estimate of
\* the detector that matched, and is positive in either case.  (At exactly
\* 0.05 the decimal is 0.1 or 0.0 by the rounding of the float: either case
\* is admitted.)
C6_LostMaterial ==
  pc = "returned" =>
    \A y \in Slots :
      LET f == FindingAt(y)
      IN  /\ f.lost_material > 0
          /\ \E x \in Places :
               /\ Scanned(x) /\ StemsFrom(f, x) /\ Fires(f.pattern, MoveAt(x))
               /\ LET change == IF "eval_change" \in DOMAIN MoveAt(x)
                                  THEN MoveAt(x).eval_change ELSE 0
                      size == IF change < 0 THEN -change ELSE change
                      estimate == DetectorOutput(f.pattern, MoveAt(x))[2]
                  IN  /\ size > 5 => (10 * f.lost_material - size \in -5..5)
                      /\ size < 5 => f.lost_material = estimate
                      /\ size = 5 => f.lost_material \in {1, estimate}

\* Two findings in one summary: one of a move whose eval_change rounds to
\* 0.0, holding the back-rank estimate, one holding the move's own loss.
C6_Witness ==
  /\ pc = "returned"
  /\ \E y \in Slots, z \in Slots :
       /\ FindingAt(y).pattern = "back_rank" /\ FindingAt(y).lost_material = 1000
       /\ FindingAt(z).pattern = "hanging_piece" /\ FindingAt(z).lost_material = 12
  /\ \E x \in Places : "eval_change" \in DOMAIN MoveAt(x) /\ MoveAt(x).eval_change = -3

\* The phase the move numbers of a range belong to, as stated.
InOpening(n) == n <= 15

InMiddlegame(n) == 16 <= n /\ n <= 40

InEndgame(n) == n >= 41

InPhase(phase, n) ==
  CASE phase = "opening" -> InOpening(n)
    [] phase = "middlegame" -> InMiddlegame(n)
    [] phase = "endgame" -> InEndgame(n)

\* The counted moves whose move number lies in the phase.
CountedIn(phase) == {x \in Places : Counted(x) /\ InPhase(phase, MoveAt(x).move_number)}

\* C7: the phase is a total function of the move number: opening iff
\* move_number <= 15, middlegame iff 16..40, endgame iff >= 41; every
\* counted move lands in exactly one phase, so each phase's move_count is
\* the number of counted moves of its range.
C7_PhaseOfMoveNumber ==
  pc = "returned" =>
    /\ \A x \in Places :
         LET n == MoveAt(x).move_number
         IN  /\ _get_phase(n) = "opening" <=> InOpening(n)
             /\ _get_phase(n) = "middlegame" <=> InMiddlegame(n)
             /\ _get_phase(n) = "endgame" <=> InEndgame(n)
    /\ \A i \in 1..Len(PhaseStats) :
         PhaseStats[i].move_count = Cardinality(CountedIn(PhaseStats[i].phase))

\* Counted moves numbered 15 and 16, or 40 and 41, in one batch, each alone
\* in its phase.
C7_Witness ==
  /\ pc = "returned"
  /\ \E x \in Places, z \in Places :
       /\ Counted(x) /\ Counted(z)
       /\ <<MoveAt(x).move_number, MoveAt(z).move_number>> \in {<<15, 16>>, <<40, 41>>}
  /\ Len(PhaseStats) = 2
  /\ \A i \in 1..Len(PhaseStats) : PhaseStats[i].move_count = 1

\* The centipawn-loss sample of a move: max(0, -eval_change * 100).
Sample(m) ==
  IF "eval_change" \in DOMAIN m /\ m.eval_change < 0 THEN -m.eval_change ELSE 0

\* The samples of a set of places, summed.
RECURSIVE SampleSum(_)
SampleSum(S) ==
  IF S = {} THEN 0
  ELSE LET x == CHOOSE y \in S : TRUE
       IN  Sample(MoveAt(x)) + SampleSum(S \ {x})

\* C8: every avg_accuracy lies in [0, 100] and is the clamp of 100 minus
\* half the mean of the phase's samples max(0, -eval_change * 100), to one
\* decimal: 0.0 when the mean is 200 or more, and a move that gained
\* evaluation adds a sample of 0.  (Tenths of a percent: the mean being
\* total / n, the exact value times n is 1000 * n - 5 * total.)
C8_AccuracyClamped ==
  pc = "returned" =>
    \A i \in 1..Len(PhaseStats) :
      LET e == PhaseStats[i]
          n == Cardinality(CountedIn(e.phase))
          total == SampleSum(CountedIn(e.phase))
      IN  /\ e.avg_accuracy \in 0..1000
          /\ n >= 1
          /\ total >= 200 * n => e.avg_accuracy = 0
          /\ total < 200 * n => 2 * (e.avg_accuracy * n - (1000 * n - 5 * total)) \in -n..n

\* A phase whose mean loss is 200 centipawns or more, reported at 0.0, and
\* a phase holding a counted move that gained evaluation, reported at 100.0.
C8_Witness ==
  /\ pc = "returned"
  /\ \E i \in 1..Len(PhaseStats), j \in 1..Len(PhaseStats) :
       /\ PhaseStats[i].avg_accuracy = 0
       /\ SampleSum(CountedIn(PhaseStats[i].phase)) >= 200
       /\ PhaseStats[j].avg_accuracy = 1000
       /\ \E x \in CountedIn(PhaseStats[j].phase) :
            "eval_change" \in DOMAIN MoveAt(x) /\ MoveAt(x).eval_change > 0

\* C9: phase_stats holds an entry for a phase exactly when a counted move
\* has a move number in it; the entry's move_count is the number of those
\* moves, blunder_count and mistake_count the numbers of them classified
\* blunder and mistake, so move_count >= 1 and blunder_count + mistake_count
\* <= move_count, and the move_counts sum to the counted moves of the batch.
C9_PhaseStatsEntries ==
  pc = "returned" =>
    /\ \A phase \in {"opening", "middlegame", "endgame"} :
         Cardinality({i \in 1..Len(PhaseStats) : PhaseStats[i].phase = phase})
           = IF CountedIn(phase) # {} THEN 1 ELSE 0
    /\ \A i \in 1..Len(PhaseStats) :
         LET e == PhaseStats[i]
             moves == CountedIn(e.phase)
         IN  /\ e.phase \in {"opening", "middlegame", "endgame"}
             /\ e.move_count = Cardinality(moves)
             /\ e.blunder_count
                  = Cardinality({x \in moves : MoveAt(x).classification = "blunder"})
             /\ e.mistake_count
                  = Cardinality({x \in moves : MoveAt(x).classification = "mistake"})
             /\ e.move_count >= 1
             /\ e.blunder_count + e.mistake_count <= e.move_count
    /\ Sum([i \in 1..Len(PhaseStats) |-> PhaseStats[i].move_count])
         = Cardinality({x \in Places : Counted(x)})

\* A batch attributed to white that holds a black move in a phase no white
\* move is in: the phase has no entry.
C9_Witness ==
  /\ pc = "returned"
  /\ \E x \in Places :
       /\ Attributed(x[1]) /\ ~Counted(x)
       /\ CountedIn(_get_phase(MoveAt(x).move_number)) = {}
  /\ Len(PhaseStats) = 1
  /\ PhaseStats[1].blunder_count + PhaseStats[1].mistake_count < PhaseStats[1].move_count

\* The three steps' conditions, read off the returned patterns and phases:
\* the most frequent pattern has two findings or more; a second pattern
\* exists; two phases or more are reported and the weakest (the first of the
\* least accurate) lies more than 5 points below the strongest or holds two
\* blunders or more.
PatternStepQualifies == \E b \in 1..Len(Buckets) : Len(Buckets[b].findings) >= 2

SecondPatternStepQualifies == Len(Buckets) >= 2

WeakestPhase ==
  PhaseStats[CHOOSE i \in 1..Len(PhaseStats) :
               /\ \A j \in 1..Len(PhaseStats) :
                    PhaseStats[i].avg_accuracy <= PhaseStats[j].avg_accuracy
               /\ \A j \in 1..(i - 1) :
                    PhaseStats[j].avg_accuracy > PhaseStats[i].avg_accuracy]

PhaseStepQualifies ==
  /\ Len(PhaseStats) >= 2
  /\ \/ \E j \in 1..Len(PhaseStats) :
          PhaseStats[j].avg_accuracy - WeakestPhase.avg_accuracy > 50
     \/ WeakestPhase.blunder_count >= 2

\* C10: the recommendations are at least 1 and at most 3; when the
\* most-frequent-pattern step, the weakest-phase step and the second-pattern
\* step all qualify they are exactly 3, in that order.
C10_RecommendationCount ==
  pc = "returned" =>
    /\ Len(Recommendations) \in 1..3
    /\ (PatternStepQualifies /\ PhaseStepQualifies /\ SecondPatternStepQualifies)
         => /\ Len(Recommendations) = 3
            /\ Recommendations[1].kind = "losing material to pattern"
            /\ Recommendations[2].kind = "phase accuracy is low"
            /\ Recommendations[3].kind = "practice recognizing pattern"
            /\ Recommendations[3].subject # Recommendations[1].subject

\* A batch on which the three steps all qualify.
C10_Witness ==
  /\ pc = "returned"
  /\ PatternStepQualifies
  /\ PhaseStepQualifies
  /\ SecondPatternStepQualifies
  /\ Len(Recommendations) = 3

\* ------------------------------------------------------------------------
\* Properties of the recommendations
\* ------------------------------------------------------------------------

\* The position of a pattern in the enumeration order of the pattern types.
EnumerationRank(pattern) == CHOOSE k \in 1..Len(PriorityOrder) : PriorityOrder[k] = pattern

\* The patterns with the most findings, and the one of them that comes
\* first in the enumeration order.
MostFrequent ==
  {b \in 1..Len(Buckets) :
     \A c \in 1..Len(Buckets) : Len(Buckets[c].findings) <= Len(Buckets[b].findings)}

FirstInEnumeration(bs) ==
  Buckets[CHOOSE b \in bs :
            \A c \in bs : EnumerationRank(Buckets[b].key) <= EnumerationRank(Buckets[c].key)].key

\* The recommendations of a kind, in the order returned.
OfKind(kind) == SelectSeq(Recommendations, LAMBDA r : r.kind = kind)

\* C11: when some pattern has 2 findings or more, the first recommendation
\* names the pattern with the most findings and, among several with the
\* most, the one that comes first in the order hanging_piece, knight_fork,
\* pin, back_rank, whatever the order the patterns first appeared in.
C11_TieBrokenByEnumerationOrder ==
  (pc = "returned" /\ PatternStepQualifies) =>
    /\ Recommendations[1].kind = "losing material to pattern"
    /\ Recommendations[1].subject = Readable(FirstInEnumeration(MostFrequent))

\* Pin and hanging_piece with two findings each, pin found first: the first
\* recommendation names the pin.
C11_Witness ==
  /\ pc = "returned"
  /\ Len(Buckets) = 2
  /\ Buckets[1].key = "pin" /\ Buckets[2].key = "hanging_piece"
  /\ Len(Buckets[1].findings) = 2 /\ Len(Buckets[2].findings) = 2
  /\ Recommendations[1].kind = "losing material to pattern"
  /\ Recommendations[1].subject = "pin"

\* C12: the weakest-phase recommendation is emitted exactly when phase_stats
\* holds 2 phases or more and either the highest avg_accuracy exceeds the
\* lowest by more than 5 points or the lowest-accuracy phase (the first of
\* them in phase order) holds 2 blunders or more.
C12_PhaseStepExactlyWhenQualified ==
  pc = "returned" =>
    (OfKind("phase accuracy is low") # <<>> <=> PhaseStepQualifies)

\* Two phases whose reported accuracies lie exactly 5.0 apart, one blunder
\* in the weaker, and the weakest-phase recommendation emitted.
C12_Witness ==
  /\ pc = "returned"
  /\ Len(PhaseStats) = 2
  /\ PhaseStats[1].avg_accuracy - PhaseStats[2].avg_accuracy = 50
  /\ PhaseStats[2].blunder_count = 1
  /\ OfKind("phase accuracy is low") # <<>>

\* The phase_stats entry of a phase named in a recommendation.
StatsOf(phase) == PhaseStats[CHOOSE i \in 1..Len(PhaseStats) : PhaseStats[i].phase = phase]

\* The recommendations the pattern and weakest-phase steps produce.
StepRecommendations ==
  OfKind("losing material to pattern") \o OfKind("phase accuracy is low")
    \o OfKind("practice recognizing pattern")

\* C13: the per-phase blunder recommendations appear only when the pattern
\* and weakest-phase steps produced none; then there is exactly one for each
\* phase with blunder_count >= 1, in ascending order of avg_accuracy; and
\* the generic keep-playing message appears only when nothing else does.
C13_FallbackOnlyWhenStepsEmpty ==
  pc = "returned" =>
    LET fallback == OfKind("blunders in phase")
        generic == OfKind("keep playing")
    IN  /\ fallback # <<>> => StepRecommendations = <<>>
        /\ StepRecommendations = <<>> =>
             /\ \A i \in 1..Len(PhaseStats) :
                  Cardinality({k \in 1..Len(fallback) :
                                 fallback[k].subject = PhaseStats[i].phase})
                    = IF PhaseStats[i].blunder_count >= 1 THEN 1 ELSE 0
             /\ \A k \in 1..Len(fallback) :
                  /\ \E i \in 1..Len(PhaseStats) : PhaseStats[i].phase = fallback[k].subject
                  /\ fallback[k].n1 = StatsOf(fallback[k].subject).blunder_count
             /\ \A k \in 1..Len(fallback), l \in 1..Len(fallback) :
                  k < l => StatsOf(fallback[k].subject).avg_accuracy
                             <= StatsOf(fallback[l].subject).avg_accuracy
        /\ generic # <<>> => Recommendations = <<KeepPlaying>>
        /\ (StepRecommendations = <<>> /\ fallback = <<>>) => Recommendations = <<KeepPlaying>>

\* Blunders in the opening and the middlegame, no step recommendation, and
\* the less accurate middlegame named before the opening.
C13_Witness ==
  /\ pc = "returned"
  /\ StepRecommendations = <<>>
  /\ Len(OfKind("blunders in phase")) = 2
  /\ Recommendations[1].subject = "middlegame"
  /\ Recommendations[2].subject = "opening"
  /\ PhaseStats[1].phase = "opening"

\* A batch of MinBatchSize games whose moves are all classified good or
\* excellent, each with a loss of 20 centipawns at most.
CleanBatch ==
  /\ Len(analyzed_games) = MinBatchSize
  /\ Places # {}
  /\ \A x \in Places :
       /\ MoveAt(x).classification \in {"good", "excellent"}
       /\ Sample(MoveAt(x)) <= 20

\* Of a clean batch: no pattern, an entry with no blunder for every phase
\* that holds a move.
CleanPatternsAndPhases ==
  /\ Buckets = <<>>
  /\ \A phase \in {"opening", "middlegame", "endgame"} :
       CountedIn(phase) # {} <=> \E i \in 1..Len(PhaseStats) : PhaseStats[i].phase = phase
  /\ \A i \in 1..Len(PhaseStats) : PhaseStats[i].blunder_count = 0

\* Two phases or more are reported and the highest avg_accuracy exceeds the
\* lowest by more than 5 points.
PhaseGapExceedsFive ==
  /\ Len(PhaseStats) >= 2
  /\ \E i \in 1..Len(PhaseStats), j \in 1..Len(PhaseStats) :
       PhaseStats[i].avg_accuracy - PhaseStats[j].avg_accuracy > 50

\* What a clean batch returns: no pattern and no blunder in any phase
\* entry; the generic keep-playing message alone unless the phase accuracies
\* lie more than 5 points apart, and then the weakest-phase recommendation
\* alone, naming the least accurate phase.
CleanBatchKeepPlayingUnlessPhaseGap ==
  (pc = "returned" /\ CleanBatch) =>
    /\ CleanPatternsAndPhases
    /\ ~PhaseGapExceedsFive => Recommendations = <<KeepPlaying>>
    /\ PhaseGapExceedsFive =>
         /\ Len(Recommendations) = 1
         /\ Recommendations[1].kind = "phase accuracy is low"
         /\ Recommendations[1].subject = WeakestPhase.phase

\* C14: a batch of 5 games whose moves are all classified good or excellent
\* (a loss of 20 centipawns at most) returns an empty tactical_patterns, a
\* phase_stats entry with blunder_count 0 for every phase that holds a move,
\* and the generic keep-playing message as the only recommendation.
C14_CleanBatchKeepPlaying ==
  (pc = "returned" /\ CleanBatch) =>
    /\ CleanPatternsAndPhases
    /\ Recommendations = <<KeepPlaying>>

\* A clean batch with a well-played move on a position with a motif, whose
\* opening (94.0) lies 6 points below its endgame (100.0): the
\* weakest-phase recommendation is returned.
C14_Witness ==
  /\ pc = "returned"
  /\ CleanBatch
  /\ \E x \in Places : FirstFiring(MoveAt(x)) # <<>>
  /\ Len(PhaseStats) = 2
  /\ PhaseStats[1].avg_accuracy = 940 /\ PhaseStats[2].avg_accuracy = 1000
  /\ Len(Recommendations) = 1
  /\ Recommendations[1].kind = "phase accuracy is low"

\* ------------------------------------------------------------------------
\* Properties of overall_accuracy and of the summary as a whole
\* ------------------------------------------------------------------------

\* The accuracy figures selected: <<game, key>> for the attributed color's
\* key, or both keys of an unattributed game, where the summary holds it.
SelectedFigures ==
  {f \in (1..Len(analyzed_games)) \X {"white_accuracy", "black_accuracy"} :
     /\ "summary" \in DOMAIN analyzed_games[f[1]]
     /\ f[2] \in DOMAIN analyzed_games[f[1]].summary
     /\ AttributionOf(f[1]) = "white" => f[2] = "white_accuracy"
     /\ AttributionOf(f[1]) = "black" => f[2] = "black_accuracy"}

RECURSIVE FigureSum(_)
FigureSum(S) ==
  IF S = {} THEN 0
  ELSE LET f == CHOOSE x \in S : TRUE
       IN  analyzed_games[f[1]].summary[f[2]] + FigureSum(S \ {f})

\* C15: overall_accuracy is the mean, to one decimal, of the selected
\* per-game figures: white_accuracy of a game attributed to white,
\* black_accuracy of one attributed to black, both of an unattributed game;
\* a missing figure is left out of the mean, and with no figure selected
\* overall_accuracy is 0.0 and the call returns.  (Tenths of a percent: the
\* value times n lies within n/2 of the sum.)
C15_OverallAccuracyIsMeanOfSelected ==
  /\ pc = "raised" => RaisesIndexError(analyzed_games, player_colors[1])
  /\ pc = "returned" =>
       LET n == Cardinality(SelectedFigures)
           total == FigureSum(SelectedFigures)
           overall == result[1].overall_accuracy
       IN  /\ n = 0 => overall = 0
           /\ n > 0 => 2 * (overall * n - total) \in -n..n

\* Two games: one attributed to white whose summary holds black_accuracy
\* only, one unattributed holding both figures (90.0 and 80.0); the mean is
\* 85.0, of two figures.
C15_Witness ==
  /\ pc = "returned"
  /\ Len(analyzed_games) = 2
  /\ AttributionOf(1) = "white"
  /\ "summary" \in DOMAIN analyzed_games[1]
  /\ DOMAIN analyzed_games[1].summary = {"black_accuracy"}
  /\ AttributionOf(2) = NoneStr
  /\ Cardinality(SelectedFigures) = 2
  /\ result[1].overall_accuracy = 850

\* C17: analyze_games has no minimum batch size: total_games is the number
\* of games passed in, whatever it is, and an empty batch returns, without
\* raising, total_games 0, no pattern, no phase entry, overall_accuracy 0.0
\* and the generic keep-playing message alone.
C17_NoMinimumBatchSize ==
  /\ pc = "returned" => result[1].total_games = Len(analyzed_games)
  /\ (pc # "call" /\ analyzed_games = <<>>) =>
       /\ pc = "returned"
       /\ result[1].total_games = 0
       /\ Buckets = <<>>
       /\ PhaseStats = <<>>
       /\ result[1].overall_accuracy = 0
       /\ Recommendations = <<KeepPlaying>>

\* The empty batch, passed with an empty attribution list, has returned.
C17_Witness ==
  /\ pc = "returned"
  /\ analyzed_games = <<>>
  /\ player_colors = << <<>> >>
  /\ result[1].total_games = 0

\* ------------------------------------------------------------------------
\* Properties of the detectors
\* ------------------------------------------------------------------------

\* The boards of the positions the batch holds.
Positions ==
  {Board(MoveAt(x).fen_after) : x \in {y \in Places : ~BadFen(MoveAt(y))}}

\* The material values and names as stated: pawn 1, knight 3, bishop 3,
\* rook 5, queen 9 (tenths of a pawn).
StatedValue(piece_type) ==
  CASE piece_type = PAWN -> 10
    [] piece_type = KNIGHT -> 30
    [] piece_type = BISHOP -> 30
    [] piece_type = ROOK -> 50
    [] piece_type = QUEEN -> 90

StatedName(piece_type) ==
  CASE piece_type = PAWN -> "pawn"
    [] piece_type = KNIGHT -> "knight"
    [] piece_type = BISHOP -> "bishop"
    [] piece_type = ROOK -> "rook"
    [] piece_type = QUEEN -> "queen"

\* The squares of the victim's pieces, the king apart, that a piece of the
\* other color attacks and no piece of the victim's defends.
HangingSquares(board, victim) ==
  {sq \in SQUARES :
     /\ HasPiece(board, sq)
     /\ piece_at(board, sq).color = victim
     /\ piece_at(board, sq).piece_type # KING
     /\ \E from \in SQUARES :
          /\ HasPiece(board, from) /\ piece_at(board, from).color # victim
          /\ sq \in attacks(board, from)
     /\ ~\E from \in SQUARES :
          /\ HasPiece(board, from) /\ piece_at(board, from).color = victim
          /\ sq \in attacks(board, from)}

\* C19: detect_hanging_pieces returns a finding exactly when some piece of
\* the victim's, the king apart, is attacked by the other color and defended
\* by none of its own; the piece reported is a hanging piece of the highest
\* value (pawn 1, knight 3, bishop 3, rook 5, queen 9), the lowest square in
\* a1..h8 order among equals, the value returned is that piece's, and a king
\* is never reported.
C19_HangingPieceReported ==
  \A board \in Positions, victim \in BOOLEAN :
    LET hanging == HangingSquares(board, victim)
        found == detect_hanging_pieces(board, victim)
    IN  /\ found = <<>> <=> hanging = {}
        /\ found # <<>> =>
             \E sq \in hanging :
               /\ \A t \in hanging :
                    \/ StatedValue(piece_at(board, t).piece_type)
                         < StatedValue(piece_at(board, sq).piece_type)
                    \/ /\ StatedValue(piece_at(board, t).piece_type)
                            = StatedValue(piece_at(board, sq).piece_type)
                       /\ sq <= t
               /\ found[1].text = "left undefended"
               /\ found[1].piece = StatedName(piece_at(board, sq).piece_type)
               /\ found[1].piece # "king"
               /\ found[1].square = _sq(sq)
               /\ found[2] = StatedValue(piece_at(board, sq).piece_type)

\* The position with White's knight on b3 and bishop on e4 both hanging was
\* scanned and the knight on b3 reported at 3.0; in the same batch the
\* position with the hanging queen on d4 and pawn on f4 reported the queen
\* at 9.0.
C19_Witness ==
  /\ pc = "returned"
  /\ \E y \in Slots, z \in Slots :
       /\ FindingAt(y).pattern = "hanging_piece"
       /\ FindingAt(y).fen = FenTwoHanging
       /\ FindingAt(y).description.piece = "knight"
       /\ FindingAt(y).description.square = <<"b", 3>>
       /\ FindingAt(y).lost_material = 30
       /\ FindingAt(z).fen = FenQueenAndPawnHanging
       /\ FindingAt(z).description.piece = "queen"
       /\ FindingAt(z).description.square = <<"d", 4>>
       /\ FindingAt(z).lost_material = 90

\* The calls completed so far, the last included.
CompletedCalls == IF pc = "call" THEN earlier ELSE Append(earlier, CompletedCall)

FailedGames == {errors[k].game : k \in 1..Len(errors)}

\* The PGNs of the request analyzed successfully, in order: the PGN behind
\* each entry of analyzed_games.
RECURSIVE AnalyzedFrom(_)
AnalyzedFrom(n) ==
  IF n = 0 THEN <<>>
  ELSE IF n \in FailedGames THEN AnalyzedFrom(n - 1)
  ELSE Append(AnalyzedFrom(n - 1), request.pgns[n])

\* What the endpoint has done at any moment.
BatchGate ==
  /\ detector_calls > 0 =>
       /\ Len(analyzed_games) >= 5
       /\ Len(request.pgns) >= 5
       /\ \A g \in 1..Len(analyzed_games) : AnalyzedFrom(engine_calls)[g].valid
  /\ Len(request.pgns) < 5 => engine_calls = 0 /\ detector_calls = 0
  /\ (engine_calls = Len(request.pgns) /\ Len(analyzed_games) < 5) => detector_calls = 0
  /\ pc = "rejected" => detector_calls = 0 /\ result = <<>>
  /\ Len(analyzed_games) + Len(errors) = engine_calls

\* What the endpoint does next.
BatchGateStep ==
  /\ (pc = "received" /\ Len(request.pgns) < 5) => pc' = "rejected"
  /\ (pc = "loop" /\ engine_calls = Len(request.pgns) /\ Len(analyzed_games) < 5)
       => pc' = "rejected"

\* C18: analyze_batch calls PatternDetector.analyze_games only with at
\* least 5 successfully analyzed games: a request of fewer than 5 PGNs is
\* rejected (400) before any game goes to the engine, and a request of which
\* fewer than 5 games are analyzed successfully is rejected (400) without a
\* call of the detector.
C18_DetectorOnlyWithFiveGames == []BatchGate /\ [][BatchGateStep]_vars

\* A request of 5 PGNs, one of which failed, rejected after 5 engine calls
\* with 4 analyzed games and no call of the detector.
C18_Witness ==
  /\ pc = "rejected"
  /\ Len(request.pgns) = 5
  /\ engine_calls = 5
  /\ Len(analyzed_games) = 4
  /\ Len(errors) = 1
  /\ detector_calls = 0

\* The half moves of a PGN that analyze_game records: those with both
\* evaluations.
RecordedPlies(pgn) == SelectSeq(pgn.plies, LAMBDA ply : ply.before # <<>> /\ ply.after # <<>>)

\* The loss a record states: minus eval_change, in centipawns.
StatedLoss(move) == -move.eval_change

\* The loss the recorded White-positive evaluations give.
RecordedLoss(move) == CpLoss_WhitePositive(move.color, move.eval_before, move.eval_after)

\* A record agrees with itself; ply is the half move it was made from.
ConsistentRecord(move, ply) ==
  /\ move.classification = classify_move(StatedLoss(move))
  /\ (ply.before[1].type = "cp" /\ ply.after[1].type = "cp")
       => StatedLoss(move) = RecordedLoss(move)

\* C20: every MoveRecord analyze_game produces is consistent: the
\* classification is the threshold function of the centipawn loss,
\* eval_change is minus that loss in pawns, and for centipawn evaluations
\* the loss is (eval_before - eval_after) * 100 for a White move and
\* (eval_after - eval_before) * 100 for a Black move.
C20_MoveRecordConsistent ==
  \A g \in 1..Len(analyzed_games) :
    LET pgn == AnalyzedFrom(engine_calls)[g]
    IN  \A j \in 1..Len(analyzed_games[g].moves) :
          ConsistentRecord(analyzed_games[g].moves[j], RecordedPlies(pgn)[j])

\* Every record is made the way analyze_game makes it: classified by the
\* loss it states, which is the sum of the two White-positive evaluations
\* for White and minus that sum for Black.
MoveRecordAsComputed ==
  \A g \in 1..Len(analyzed_games) :
    \A j \in 1..Len(analyzed_games[g].moves) :
      LET move == analyzed_games[g].moves[j]
          ply == RecordedPlies(AnalyzedFrom(engine_calls)[g])[j]
      IN  /\ move.classification = classify_move(StatedLoss(move))
          /\ (ply.before[1].type = "cp" /\ ply.after[1].type = "cp")
               => StatedLoss(move) = CpLoss(move.color, move.eval_before, move.eval_after)

\* A White move that keeps the evaluation at +0.50 is recorded as a mistake
\* with eval_change -1.00.
C20_Witness ==
  \E g \in 1..Len(analyzed_games) :
    \E j \in 1..Len(analyzed_games[g].moves) :
      LET move == analyzed_games[g].moves[j]
      IN  /\ move.color = "white"
          /\ move.eval_before = 50
          /\ move.eval_after = 50
          /\ move.eval_change = -100
          /\ move.classification = "mistake"

\* The material values as stated, the king's 100 included (tenths of a pawn).
MaterialValue(piece_type) == IF piece_type = KING THEN 1000 ELSE StatedValue(piece_type)

MaterialName(piece_type) == IF piece_type = KING THEN "king" ELSE StatedName(piece_type)

\* The knights that may fork: each knight of the exploiter on the board as
\* it is, and each legal knight move of the exploiter on the board after it.
\* A candidate is the knight's square and the board it stands on.
ForkCandidates(board, exploiter) ==
  LET moves == IF board.turn = exploiter THEN legal_knight_moves(board) ELSE <<>>
  IN  {<<sq, board>> : sq \in pieces(board, KNIGHT, exploiter)}
        \cup {<<moves[i].to_square, push(board, moves[i])>> : i \in 1..Len(moves)}

\* The valuable pieces of the victim's a candidate attacks.
ForkedBy(c, victim) ==
  {t \in SQUARES :
     /\ t \in attacks(c[2], c[1])
     /\ HasPiece(c[2], t)
     /\ piece_at(c[2], t).color = victim
     /\ piece_at(c[2], t).piece_type \in {KING, QUEEN, ROOK, BISHOP}}

\* What a candidate forks: the knight's square and, in a1..h8 order, the
\* names and the values of the pieces.
ForkedPieces(c, victim) ==
  LET forked == Ascending(ForkedBy(c, victim))
  IN  [square |-> c[1],
       names |-> [i \in 1..Len(forked) |-> MaterialName(piece_at(c[2], forked[i]).piece_type)],
       values |-> [i \in 1..Len(forked) |-> MaterialValue(piece_at(c[2], forked[i]).piece_type)]]

\* A fork with its total and its least value.
Totalled(fork) == fork @@ [total |-> Sum(fork.values), least |-> MinOf(fork.values)]

\* The forks on a board: the candidates that attack 2 valuable pieces or
\* more.
Forks(board, exploiter) ==
  {Totalled(fork) :
     fork \in {f \in {ForkedPieces(c, ~exploiter) : c \in ForkCandidates(board, exploiter)} :
                 Len(f.values) >= 2}}

\* C21: detect_knight_fork reports a fork only for a knight of the
\* exploiter, on its square or on the destination of one legal knight move
\* made on a copy of the board, that attacks at least 2 of the victim's
\* king, queen, rooks and bishops (pawns and knights never count); of these
\* candidates it reports one of the highest total attacked material, and the
\* value returned is the lowest value among the forked pieces.
C21_KnightForkReported ==
  \A board \in Positions, exploiter \in BOOLEAN :
    LET forks == Forks(board, exploiter)
        found == detect_knight_fork(board, exploiter)
    IN  /\ found = <<>> <=> forks = {}
        /\ found # <<>> =>
             \E c \in forks :
               /\ \A d \in forks : d.total <= c.total
               /\ found[1].square = _sq(c.square)
               /\ found[1].names = c.names
               /\ found[2] = c.least

\* A batch in which the knight already forking queen and rook from d4 was
\* reported at 5.0, and the knight that can fork king and bishop from d3 or
\* king and rook from c2 was reported on c2, the richer of the two.
C21_Witness ==
  /\ pc = "returned"
  /\ \E y \in Slots, z \in Slots :
       /\ FindingAt(y).pattern = "knight_fork"
       /\ FindingAt(y).fen = FenForkOnBoard
       /\ FindingAt(y).description.square = <<"d", 4>>
       /\ FindingAt(y).description.names = <<"queen", "rook">>
       /\ FindingAt(y).lost_material = 50
       /\ FindingAt(z).pattern = "knight_fork"
       /\ FindingAt(z).fen = FenKnightFork
       /\ FindingAt(z).description.square = <<"c", 2>>
       /\ FindingAt(z).description.names = <<"rook", "king">>

\* The victim's pieces, the king apart, that are pinned to the victim's king.
PinnedSquares(board, victim) ==
  {sq \in SQUARES :
     /\ HasPiece(board, sq)
     /\ piece_at(board, sq).color = victim
     /\ piece_at(board, sq).piece_type # KING
     /\ king(board, victim) # <<>>
     /\ is_pinned(board, victim, sq)}

\* C22: detect_pin returns a finding exactly when some piece of the
\* victim's, the king apart, is pinned to its own king; the piece reported
\* is a pinned piece of the highest value, the first in a1..h8 order among
\* equals, and the value returned is that piece's.
C22_PinReported ==
  \A board \in Positions, victim \in BOOLEAN :
    LET pinned == PinnedSquares(board, victim)
        found == detect_pin(board, victim)
    IN  /\ found = <<>> <=> pinned = {}
        /\ found # <<>> =>
             \E sq \in pinned :
               /\ \A t \in pinned :
                    \/ StatedValue(piece_at(board, t).piece_type)
                         < StatedValue(piece_at(board, sq).piece_type)
                    \/ /\ StatedValue(piece_at(board, t).piece_type)
                            = StatedValue(piece_at(board, sq).piece_type)
                       /\ sq <= t
               /\ found[1].text = "pinned to king by"
               /\ found[1].piece = StatedName(piece_at(board, sq).piece_type)
               /\ found[1].square = _sq(sq)
               /\ found[2] = StatedValue(piece_at(board, sq).piece_type)

\* A batch in which, of a pinned knight, bishop and rook, the rook on f2 was
\* reported at 5.0, and of a pinned knight and bishop the knight on d1 at
\* 3.0.
C22_Witness ==
  /\ pc = "returned"
  /\ \E y \in Slots, z \in Slots :
       /\ FindingAt(y).pattern = "pin"
       /\ FindingAt(y).fen = FenThreePinned
       /\ FindingAt(y).description.piece = "rook"
       /\ FindingAt(y).description.square = <<"f", 2>>
       /\ FindingAt(y).lost_material = 50
       /\ FindingAt(z).pattern = "pin"
       /\ FindingAt(z).fen = FenTwoPinned
       /\ FindingAt(z).description.piece = "knight"
       /\ FindingAt(z).description.square = <<"d", 1>>
       /\ FindingAt(z).lost_material = 30

\* The enemy pieces that pin the piece on sq to the king on king_sq: the
\* enemy sliders on the line from the king through sq, beyond sq, with
\* nothing but sq between them and the king.
Pinners(board, victim, sq, king_sq) ==
  {s \in SQUARES :
     /\ HasPiece(board, s)
     /\ piece_at(board, s).color # victim
     /\ sq \in between(king_sq, s)
     /\ \A x \in between(king_sq, s) : x = sq \/ ~HasPiece(board, x)
     /\ AttacksSquare(board, s, sq)
     /\ piece_at(board, s).piece_type \in {BISHOP, ROOK, QUEEN}}

\* The pin findings and the boards they were made on.
PinFindings == {y \in Slots : FindingAt(y).pattern = "pin"}

\* C23: the piece a pin finding names as the pinner is the enemy piece that
\* pins the reported piece, also when other enemy pieces stand on the same
\* line behind the king or beyond the pinning piece; "piece" is named only
\* when no enemy piece is on the ray.
C23_PinnerIsThePinningPiece ==
  pc = "returned" =>
    \A y \in PinFindings :
      LET board == Board(FindingAt(y).fen)
          sq == CHOOSE t \in SQUARES : _sq(t) = FindingAt(y).description.square
      IN  \A victim \in BOOLEAN :
            (HasPiece(board, sq) /\ piece_at(board, sq).color = victim) =>
              \E s \in Pinners(board, victim, sq, king(board, victim)[1]) :
                FindingAt(y).description.names = <<StatedName(piece_at(board, s).piece_type)>>

\* The knight on e3, pinned by the rook on e2, was reported as pinned by the
\* queen that stands behind the rook.
C23_Witness ==
  /\ pc = "returned"
  /\ \E y \in PinFindings :
       /\ FindingAt(y).fen = FenPinBehindSniper
       /\ FindingAt(y).description.square = <<"e", 3>>
       /\ FindingAt(y).description.names = <<"queen">>
       /\ Pinners(Board(FenPinBehindSniper), WHITE, square(4, 2), square(4, 3)) = {square(4, 1)}
       /\ piece_at(Board(FenPinBehindSniper), square(4, 1)).piece_type = ROOK

\* The pinner named is the first enemy piece, in a1..h8 order, on the whole
\* line through the king and the pinning piece, edge to edge.
PinnerIsFirstOnLine ==
  pc = "returned" =>
    \A y \in PinFindings :
      LET board == Board(FindingAt(y).fen)
          sq == CHOOSE t \in SQUARES : _sq(t) = FindingAt(y).description.square
          victim == piece_at(board, sq).color
          king_sq == king(board, victim)[1]
      IN  \E s \in Pinners(board, victim, sq, king_sq) :
            FindingAt(y).description.names =
              <<NameAt(board, Lowest({c \in ray(king_sq, s) \ {sq, king_sq} :
                                       HasPiece(board, c) /\ piece_at(board, c).color # victim}))>>

\* The squares in front of the king: one rank forward, on its file and the
\* neighbouring files.
FrontSquares(king_sq, victim) ==
  {t \in SQUARES :
     /\ square_rank(t) = (IF victim = WHITE THEN 1 ELSE 6)
     /\ square_file(t) - square_file(king_sq) \in {-1, 0, 1}}

\* C24: detect_back_rank returns a finding, of value 100, exactly when the
\* victim's king stands on its back rank, each of the 1 to 3 squares in
\* front of it is occupied by a piece of the victim's or attacked by the
\* enemy, and the enemy owns a rook or a queen.
C24_BackRankReported ==
  \A board \in Positions, victim \in BOOLEAN :
    LET k == king(board, victim)
        found == detect_back_rank(board, victim)
        weak ==
          /\ k # <<>>
          /\ square_rank(k[1]) = (IF victim = WHITE THEN 0 ELSE 7)
          /\ Cardinality(FrontSquares(k[1], victim)) \in 1..3
          /\ \A t \in FrontSquares(k[1], victim) :
               \/ HasPiece(board, t) /\ piece_at(board, t).color = victim
               \/ \E from \in SQUARES :
                    /\ HasPiece(board, from)
                    /\ piece_at(board, from).color # victim
                    /\ t \in attacks(board, from)
          /\ \E s \in SQUARES :
               /\ HasPiece(board, s)
               /\ piece_at(board, s).color # victim
               /\ piece_at(board, s).piece_type \in {ROOK, QUEEN}
    IN  /\ found # <<>> <=> weak
        /\ found # <<>> => found[2] = 1000 /\ found[1].text = "Back rank weakness"

\* A batch in which the cornered king with h2 empty but covered by a bishop
\* was reported at 100, and the one with an unguarded enemy pawn on h2 was
\* scanned and nothing reported for it.
C24_Witness ==
  /\ pc = "returned"
  /\ \E y \in Slots :
       /\ FindingAt(y).pattern = "back_rank"
       /\ FindingAt(y).fen = FenCornerCovered
       /\ FindingAt(y).lost_material = 1000
  /\ \E x \in Places :
       /\ HasFen(MoveAt(x))
       /\ MoveAt(x).fen_after = FenCornerLoosePawn
       /\ \A y \in Slots : FindingAt(y).fen # FenCornerLoosePawn

\* ------------------------------------------------------------------------
\* Properties of the order of the findings
\* ------------------------------------------------------------------------

\* The place x comes before the place y in scan order: an earlier game, or
\* an earlier move of the same game.
ScannedBefore(x, y) == x[1] < y[1] \/ (x[1] = y[1] /\ x[2] < y[2])

\* The findings fs can be laid on blunders and mistakes of the batch, each
\* on the move it stems from, so that the places follow scan order.
InScanOrder(fs) ==
  \E at \in [1..Len(fs) -> Places] :
    /\ \A k \in 1..Len(fs) : IsError(MoveAt(at[k])) /\ StemsFrom(fs[k], at[k])
    /\ \A k \in 1..(Len(fs) - 1) : ScannedBefore(at[k], at[k + 1])

\* C25: within every pattern's list of tactical_patterns the findings are
\* in scan order: game_index never decreases along the list, findings of one
\* game follow the order of their moves in the game's move sequence, each
\* finding's game_index is the position of its game in the batch and its fen
\* the move's fen_after.
C25_FindingsInScanOrder ==
  pc = "returned" =>
    \A b \in 1..Len(Buckets) :
      /\ \A k \in 1..(Len(Buckets[b].findings) - 1) :
           Buckets[b].findings[k].game_index <= Buckets[b].findings[k + 1].game_index
      /\ InScanOrder(Buckets[b].findings)

\* A list of three findings: two of the first game, the earlier of which
\* has the higher move number, then one of the second game.
C25_Witness ==
  /\ pc = "returned"
  /\ \E b \in 1..Len(Buckets) :
       /\ Len(Buckets[b].findings) = 3
       /\ Buckets[b].findings[1].game_index = 0
       /\ Buckets[b].findings[2].game_index = 0
       /\ Buckets[b].findings[1].move_number > Buckets[b].findings[2].move_number
       /\ Buckets[b].findings[3].game_index = 1

\* ------------------------------------------------------------------------
\* Properties of what a call leaves behind
\* ------------------------------------------------------------------------

\* A call leaves its arguments as they were.
ArgumentsKept ==
  pc = "call" => (analyzed_games' = analyzed_games /\ player_colors' = player_colors)

\* Each detector leaves the board it was passed as it was.
BoardsKept ==
  \A board \in Positions, vc \in BOOLEAN, i \in 1..Len(TACTICAL_DETECTORS) :
    BoardAfterDetector(i, board, vc, ~vc) = board

\* What a call returned is what analyze_games gives for its arguments alone,
\* whatever calls were made before it.
NothingCarriedOver ==
  \A c \in 1..Len(CompletedCalls) :
    CompletedCalls[c].pc = "returned" =>
      CompletedCalls[c].result =
        <<analyze_games(CompletedCalls[c].analyzed_games, CompletedCalls[c].player_colors)>>

RecordedHalfMoves(pgn) ==
  SelectSeq([i \in 1..Len(pgn.plies) |-> i],
            LAMBDA i : pgn.plies[i].before # <<>> /\ pgn.plies[i].after # <<>>)

\* The move number of the half move at position i of the mainline.
MoveNumberOf(i) == (i + 1) \div 2

\* C27: in the move list analyze_game produces, every record's move_number
\* is the number of that move in the game (White's n-th move and Black's
\* n-th move both carry n), also when the analysis of an earlier move failed
\* and that move was left out.
C27_MoveNumberIsTheGamesMoveNumber ==
  \A g \in 1..Len(analyzed_games) :
    LET pgn == AnalyzedFrom(engine_calls)[g]
    IN  \A j \in 1..Len(analyzed_games[g].moves) :
          /\ analyzed_games[g].moves[j].move_number
               = MoveNumberOf(RecordedHalfMoves(pgn)[j])
          /\ analyzed_games[g].moves[j].color
               = (IF RecordedHalfMoves(pgn)[j] % 2 = 1 THEN "white" ELSE "black")

\* White's second move, the third half move of a game whose second half
\* move (Black's first) could not be analyzed, is recorded with move number
\* 1.
C27_Witness ==
  \E g \in 1..Len(analyzed_games) :
    /\ AnalyzedFrom(engine_calls)[g] = PgnAnnBob
    /\ RecordedHalfMoves(PgnAnnBob) = <<1, 3>>
    /\ Len(analyzed_games[g].moves) = 2
    /\ analyzed_games[g].moves[2].color = "white"
    /\ analyzed_games[g].moves[2].move_number = 1

\* The number a record carries is 1 plus the Black moves recorded before it.
MoveNumberCountsRecordedBlackMoves ==
  \A g \in 1..Len(analyzed_games) :
    \A j \in 1..Len(analyzed_games[g].moves) :
      analyzed_games[g].moves[j].move_number
        = 1 + Cardinality({k \in 1..(j - 1) : analyzed_games[g].moves[k].color = "black"})

\* C28: whenever analyze_batch calls PatternDetector.analyze_games the
\* attribution list is as long as the list of analyzed games and entry i is
\* the color derived for the PGN that produced analyzed game i, whatever
\* games of the request succeeded and failed; a failed game is in neither
\* list.
C28_AttributionAlignedWithGames ==
  /\ Len(player_colors[1]) = Len(analyzed_games)
  /\ Len(AnalyzedFrom(engine_calls)) = Len(analyzed_games)
  /\ \A i \in 1..Len(analyzed_games) :
       /\ AnalyzedFrom(engine_calls)[i].valid
       /\ analyzed_games[i] = analyze_game(AnalyzedFrom(engine_calls)[i])
       /\ player_colors[1][i] = UserColor(request.username, AnalyzedFrom(engine_calls)[i])
  /\ detector_calls > 0 => result = <<AnalyzeWith(analyzed_games, player_colors[1])>>

\* Six PGNs for the user "ann", the second of which fails: the detector was
\* called with five games and the colors white (Ann is White), black (Joann
\* is Black), none (no names), white, black.
C28_Witness ==
  /\ pc = "responded"
  /\ detector_calls = 1
  /\ request.username = <<<<"a", "n", "n">>>>
  /\ request.pgns = <<PgnAnnBob, PgnEmpty, PgnBobJoann, PgnUnnamed, PgnAnnBob, PgnBobJoann>>
  /\ FailedGames = {2}
  /\ Len(analyzed_games) = 5
  /\ player_colors = <<<<"white", "black", NoneStr, "white", "black">>>>

\* ------------------------------------------------------------------------
\* The weakest-phase recommendation (_generate_recommendations, Rec 2).

\* The weakest-phase recommendations among those returned.
PhaseRecommendations ==
  {i \in 1..Len(Recommendations) : Recommendations[i].kind = "phase accuracy is low"}

\* All the reported phases have the same avg_accuracy.
PhasesLevel ==
  \A i, j \in 1..Len(PhaseStats) : PhaseStats[i].avg_accuracy = PhaseStats[j].avg_accuracy

\* C29: whenever the weakest-phase recommendation is emitted, the phase it
\* names as weakest differs from the phase it names as strongest, also when
\* all phases have the same avg_accuracy and the recommendation is due to the
\* two blunders of the weakest phase alone.
C29_WeakestIsNotStrongest ==
  pc = "returned" =>
    \A i \in PhaseRecommendations : Recommendations[i].subject # Recommendations[i].other

\* Two phases or more of one avg_accuracy, the first of them with two
\* blunders or more: the recommendation is emitted and names that first
\* phase as the weakest and as the strongest.
C29_Witness ==
  /\ pc = "returned"
  /\ Len(PhaseStats) >= 2
  /\ PhasesLevel
  /\ PhaseStats[1].blunder_count >= 2
  /\ \E i \in PhaseRecommendations :
       /\ Recommendations[i].subject = PhaseStats[1].phase
       /\ Recommendations[i].other = PhaseStats[1].phase

\* What the code does guarantee: the recommendation names one phase twice
\* only when all the phases have the same avg_accuracy; with a gap between
\* two phases the names differ.
WeakestIsStrongestOnlyWhenLevel ==
  pc = "returned" =>
    \A i \in PhaseRecommendations :
      Recommendations[i].subject = Recommendations[i].other => PhasesLevel

\* ------------------------------------------------------------------------
\* The shared engine: get_move and analyze calls of concurrent requests on
\* the one ChessEngine of main.py. Each call is a coroutine; another call may
\* run wherever it awaits the engine.

MaxTasks == 3

\* The ELOs requested: below the range, two inside it (the ones /api/move
\* lets through), above it.
Elos == {1000, 1500, 2000, 3000}

\* elo = max(1350, min(2800, elo))
ClampElo(elo) == Max(1350, Min(2800, elo))

\* A call on the shared engine, before its first line has run; playable is
\* whether get_move's FEN parses to a position with the game still on.
Task(kind, elo, playable) ==
  [kind |-> kind, elo |-> elo, playable |-> playable, at |-> "start", used |-> <<>>]

Tasks ==
  {Task("get_move", elo, playable) : elo \in Elos, playable \in BOOLEAN}
    \cup {Task("analyze", 0, TRUE)}

EngineInit ==
  /\ analyzed_games = <<>>
  /\ player_colors = <<>>
  /\ pc = "serving"
  /\ result = <<>>
  /\ earlier = <<>>
  /\ request = <<>>
  /\ errors = <<>>
  /\ engine_calls = 0
  /\ detector_calls = 0
  /\ engine_options = StartedOptions
  /\ tasks = <<>>

engine_idle_vars ==
  <<analyzed_games, player_colors, pc, result, earlier, request, errors,
    engine_calls, detector_calls>>

\* A request arrives and its handler calls chess_engine.get_move or
\* chess_engine.analyze.
Arrive ==
  /\ Len(tasks) < MaxTasks
  /\ \E t \in Tasks : tasks' = Append(tasks, t)
  /\ UNCHANGED <<engine_options, engine_idle_vars>>

\* get_move leaves by ValueError: invalid FEN, or the game is over.
GetMoveRaises ==
  \E i \in 1..Len(tasks) :
    /\ tasks[i].kind = "get_move" /\ tasks[i].at = "start"
    /\ ~tasks[i].playable
    /\ tasks' = [tasks EXCEPT ![i].at = "raised"]
    /\ UNCHANGED <<engine_options, engine_idle_vars>>

\* get_move up to the end of await self.engine.configure({...}): the options
\* are set on the engine process and stay set.
GetMoveConfigure ==
  \E i \in 1..Len(tasks) :
    /\ tasks[i].kind = "get_move" /\ tasks[i].at = "start"
    /\ tasks[i].playable
    /\ engine_options' = [UCI_LimitStrength |-> TRUE, UCI_Elo |-> <<ClampElo(tasks[i].elo)>>]
    /\ tasks' = [tasks EXCEPT ![i].at = "configured"]
    /\ UNCHANGED engine_idle_vars

\* await self.engine.play(board, Limit(time=1.0)): the engine searches under
\* the options set on it at that moment.
GetMovePlay ==
  \E i \in 1..Len(tasks) :
    /\ tasks[i].kind = "get_move" /\ tasks[i].at = "configured"
    /\ tasks' = [tasks EXCEPT ![i].at = "done", ![i].used = <<engine_options>>]
    /\ UNCHANGED <<engine_options, engine_idle_vars>>

\* analyze: await self.engine.analyse(board, Limit(depth=depth)), under the
\* options set on the engine at that moment; analyze sets none.
Analyze ==
  \E i \in 1..Len(tasks) :
    /\ tasks[i].kind = "analyze" /\ tasks[i].at = "start"
    /\ tasks' = [tasks EXCEPT ![i].at = "done", ![i].used = <<engine_options>>]
    /\ UNCHANGED <<engine_options, engine_idle_vars>>

EngineNext ==
  Arrive \/ GetMoveRaises \/ GetMoveConfigure \/ GetMovePlay \/ Analyze

EngineSpec == EngineInit /\ [][EngineNext]_vars

\* The calls of a kind that have obtained their answer from the engine.
Served(kind) ==
  {i \in 1..Len(tasks) : tasks[i].kind = kind /\ tasks[i].at = "done"}

\* C30: every get_move obtains its move with the engine limited to the ELO
\* that call requested, clamped to 1350..2800, under any interleaving of
\* concurrent get_move calls; and no position analysis is performed with the
\* strength limit left enabled by a get_move.
C30_StrengthAsRequested ==
  /\ \A i \in Served("get_move") :
       tasks[i].used = <<[UCI_LimitStrength |-> TRUE,
                          UCI_Elo |-> <<ClampElo(tasks[i].elo)>>]>>
  /\ \A i \in Served("analyze") : ~tasks[i].used[1].UCI_LimitStrength

\* Two get_move calls for 1500 and 2000 and an analyze call: the first
\* get_move played at the 2000 the second had configured meanwhile, and the
\* analysis ran limited to 2000 as well.
C30_Witness ==
  /\ Len(tasks) = 3
  /\ tasks[1].kind = "get_move" /\ tasks[1].elo = 1500 /\ tasks[1].at = "done"
  /\ tasks[1].used = <<[UCI_LimitStrength |-> TRUE, UCI_Elo |-> <<2000>>]>>
  /\ tasks[2].kind = "get_move" /\ tasks[2].elo = 2000 /\ tasks[2].at = "done"
  /\ tasks[3].kind = "analyze" /\ tasks[3].at = "done"
  /\ tasks[3].used = <<[UCI_LimitStrength |-> TRUE, UCI_Elo |-> <<2000>>]>>

\* What the code does guarantee: a get_move plays with the limit on, at the
\* clamped ELO of some get_move that has configured the engine; an analysis
\* is limited only when some get_move has configured the engine before it.
StrengthAsLastConfigured ==
  /\ \A i \in Served("get_move") :
       /\ tasks[i].used[1].UCI_LimitStrength
       /\ \E j \in 1..Len(tasks) :
            /\ tasks[j].kind = "get_move" /\ tasks[j].at \in {"configured", "done"}
            /\ tasks[i].used[1].UCI_Elo = <<ClampElo(tasks[j].elo)>>
  /\ \A i \in Served("analyze") :
       tasks[i].used[1].UCI_LimitStrength =>
         \E j \in 1..Len(tasks) :
           tasks[j].kind = "get_move" /\ tasks[j].at \in {"configured", "done"}

====
